---- MODULE Spec2Model ----
(***************************************************************************)
(* Flush / refresh engine of the e-paper display driver (eink_display):    *)
(* the LVGL flush callback my_disp_flush, the threshold check              *)
(* eink_force_full_refresh, the shadow framebuffer, the row-coverage       *)
(* bitmap and the scheduled full refresh; and the MQTT application that    *)
(* drives it: screen manager, connection handling, setup() and loop().     *)
(*                                                                         *)
(* Arrays are 0-based functions of bytes (0..255); bit operations are       *)
(* computed arithmetically, as the C code computes them.  The engine state *)
(* is threaded through the operators as a record, in the order of the      *)
(* statements of the source; an action applies one whole handler.          *)
(***************************************************************************)
EXTENDS Integers, Sequences, FiniteSets, TLC

(* ---- bounds ---------------------------------------------------------- *)
\* Panel geometry (config.h: 200 x 200), scaled down.
SCREEN_WIDTH == 2
SCREEN_HEIGHT == 2
\* Threshold of flushes after which a full refresh is scheduled (config.h).
MAX_PARTIAL_UPDATES == 2
\* Flushes are issued as long as the counter is below this value.
MaxCount == 5
\* Toolkit objects alive at a time (screens with their children).
MaxObjects == 4
\* Messages the client hands over in one loop iteration.
MaxMsgs == 2

(* ---- program constants ----------------------------------------------- *)
\* uint8_t partial_update_count: values 0 .. 255.
UINT8_RANGE == 256
\* uint16_t parameters of the framebuffer / row helpers.
UINT16_RANGE == 65536
\* px_map += 8 : size of the I1 palette header.
PALETTE_BYTES == 8

(* ---- bit arithmetic on bytes ----------------------------------------- *)
\* (b & mask) != 0 for a one-bit mask.
TestMask(b, mask) == (b \div mask) % 2 = 1
\* b | mask for a one-bit mask.
OrMask(b, mask) == IF TestMask(b, mask) THEN b ELSE b + mask
\* b & ~mask for a one-bit mask.
AndNotMask(b, mask) == IF TestMask(b, mask) THEN b - mask ELSE b
\* 0x80 >> k
Shr80(k) == 128 \div (2 ^ k)
\* (n + 7) / 8
CeilDiv8(n) == (n + 7) \div 8

FrameBytes == CeilDiv8(SCREEN_WIDTH * SCREEN_HEIGHT)
RowBitmapBytes == CeilDiv8(SCREEN_HEIGHT)

Pixels == (0 .. SCREEN_WIDTH - 1) \X (0 .. SCREEN_HEIGHT - 1)

VARIABLES
  partial_update_count,     \* uint8_t counter of flush calls
  full_frame_buffer,        \* shadow framebuffer, 1 bit per pixel, 1 = black
  full_refresh_pending,     \* a full refresh is armed
  full_refresh_row_bitmap,  \* rows flushed since the refresh was armed
  epd_buffer,               \* scratch conversion buffer: "null" or "allocated"
  converted,                \* bytes the last flush put into the scratch buffer
  events,                   \* external calls made by the last handler, in order
  panel_writes,             \* display.writePixel calls of the last handler
  last_call,                \* the last handler invoked and its arguments
  fresh,                    \* pixels stored in the shadow since arming
  rows_flushed,             \* rows of the flushes received since arming
  latest_flushed,           \* per pixel: colour of the last flush covering it
  latest_converted,         \* the same, counting only flushes that converted
  flushes_since,            \* flush calls since startup / the last full refresh
  cycle,                    \* position of the main loop's update cycle
  panel_fault,              \* the panel does not answer its reinitialisation
  wifi_connected,           \* bool wifi_connected
  mqtt_connected,           \* bool mqtt_connected
  current_screen_id,        \* screen_id_t current_screen_id
  display_needs_refresh,    \* bool display_needs_refresh
  screens,                  \* screens[id].screen_obj
  ui,                       \* the screens' global object handles
  current_grid,             \* static float current_grid
  current_solar,            \* static float current_solar
  lv,                       \* the toolkit: its objects, active screen, dirty rows
  mqttClient,               \* the client: connected(), the session's subscriptions
  broker_up,                \* the broker can be reached
  booted,                   \* setup() has run
  halted,                   \* the firmware stopped at an invalid access
  app_call                  \* the last application handler and what it met

enginevars == <<partial_update_count, full_frame_buffer, full_refresh_pending,
                full_refresh_row_bitmap, epd_buffer, converted, events,
                panel_writes, fresh, rows_flushed, latest_flushed,
                latest_converted, flushes_since, cycle, panel_fault>>

appvars == <<wifi_connected, mqtt_connected, current_screen_id,
             display_needs_refresh, screens, ui, current_grid, current_solar,
             lv, mqttClient, broker_up, booted, halted, app_call>>

vars == <<enginevars, last_call, appvars>>

\* The engine state as one record, threaded through the handler operators.
Engine ==
  [partial_update_count |-> partial_update_count,
   full_frame_buffer |-> full_frame_buffer,
   full_refresh_pending |-> full_refresh_pending,
   full_refresh_row_bitmap |-> full_refresh_row_bitmap,
   epd_buffer |-> epd_buffer,
   converted |-> converted,
   events |-> <<>>,
   panel_writes |-> <<>>,
   fresh |-> IF full_refresh_pending THEN fresh ELSE {},
   panel_fault |-> panel_fault]

Emit(m, e) == [m EXCEPT !.events = Append(@, e)]

(* ---- panel adapter: the GxEPD2 calls the driver makes, in order -------- *)
GxEPD_WHITE == 0
GxEPD_BLACK == 1

display_setPartialWindow(m, x, y, w, h) == Emit(m, "setPartialWindow")
display_setFullWindow(m) == Emit(m, "setFullWindow")
display_firstPage(m) == Emit(m, "firstPage")
display_nextPage(m) == Emit(m, "nextPage")

\* display.writePixel(x, y, color)
display_writePixel(m, x, y, color) ==
  [m EXCEPT !.panel_writes = Append(@, <<x, y, color>>)]

display_hibernate(m) == Emit(m, "hibernate")
\* display.init(115200, true, 2, false): returns nothing; a panel that does
\* not answer is seen by the environment only.
display_init(m) ==
  IF m.panel_fault THEN Emit(Emit(m, "init"), "init_unanswered")
  ELSE Emit(m, "init")

(* ---- shadow framebuffer ---------------------------------------------- *)
\* set_full_frame_pixel without the row stride in the bit index
set_full_frame_pixel_no_stride(m, x, y, is_black) ==
  LET x16 == x % UINT16_RANGE
      y16 == y % UINT16_RANGE
      bit_index == y16 + x16
      byte_index == bit_index \div 8
      bit_mask == Shr80(bit_index % 8)
  IN IF byte_index \in DOMAIN m.full_frame_buffer
       THEN [m EXCEPT
               !.full_frame_buffer[byte_index] =
                  IF is_black THEN OrMask(@, bit_mask)
                  ELSE AndNotMask(@, bit_mask),
               !.fresh = IF m.full_refresh_pending
                           THEN @ \cup {<<x16, y16>>} ELSE @]
       ELSE Emit(m, "framebuffer_overrun")

\* set_full_frame_pixel without the branch that clears the bit
set_full_frame_pixel_or_only(m, x, y, is_black) ==
  LET x16 == x % UINT16_RANGE
      y16 == y % UINT16_RANGE
      bit_index == y16 * SCREEN_WIDTH + x16
      byte_index == bit_index \div 8
      bit_mask == Shr80(bit_index % 8)
  IN IF byte_index \in DOMAIN m.full_frame_buffer
       THEN [m EXCEPT
               !.full_frame_buffer[byte_index] =
                  IF is_black THEN OrMask(@, bit_mask) ELSE @,
               !.fresh = IF m.full_refresh_pending
                           THEN @ \cup {<<x16, y16>>} ELSE @]
       ELSE Emit(m, "framebuffer_overrun")

\* set_full_frame_pixel(uint16_t x, uint16_t y, bool is_black)
set_full_frame_pixel(m, x, y, is_black) ==
  LET x16 == x % UINT16_RANGE
      y16 == y % UINT16_RANGE
      bit_index == y16 * SCREEN_WIDTH + x16
      byte_index == bit_index \div 8
      bit_mask == Shr80(bit_index % 8)
  IN IF byte_index \in DOMAIN m.full_frame_buffer
       THEN [m EXCEPT
               !.full_frame_buffer[byte_index] =
                  IF is_black THEN OrMask(@, bit_mask)
                  ELSE AndNotMask(@, bit_mask),
               !.fresh = IF m.full_refresh_pending
                           THEN @ \cup {<<x16, y16>>} ELSE @]
       ELSE Emit(m, "framebuffer_overrun")

\* get_full_frame_pixel with the coordinates exchanged
get_full_frame_pixel_transposed(fb, x, y) ==
  LET bit_index == (x % UINT16_RANGE) * SCREEN_WIDTH + (y % UINT16_RANGE)
      byte_index == bit_index \div 8
      bit_mask == Shr80(bit_index % 8)
  IN TestMask(fb[byte_index], bit_mask)

\* get_full_frame_pixel(uint16_t x, uint16_t y) on a framebuffer value
get_full_frame_pixel(fb, x, y) ==
  LET bit_index == (y % UINT16_RANGE) * SCREEN_WIDTH + (x % UINT16_RANGE)
      byte_index == bit_index \div 8
      bit_mask == Shr80(bit_index % 8)
  IN TestMask(fb[byte_index], bit_mask)

(* ---- row coverage ----------------------------------------------------- *)
\* full_refresh_row_bitmap[byte_index] = bit_mask, losing the other bits
mark_row_assigns(m, byte_index, bit_mask) ==
  IF byte_index \in DOMAIN m.full_refresh_row_bitmap
    THEN [m EXCEPT !.full_refresh_row_bitmap[byte_index] = bit_mask]
    ELSE Emit(m, "row_bitmap_overrun")

\* full_refresh_row_bitmap[byte_index] |= bit_mask
mark_row(m, byte_index, bit_mask) ==
  IF byte_index \in DOMAIN m.full_refresh_row_bitmap
    THEN [m EXCEPT !.full_refresh_row_bitmap[byte_index] = OrMask(@, bit_mask)]
    ELSE Emit(m, "row_bitmap_overrun")

\* for (uint16_t row = y1; row <= y2 && row < SCREEN_HEIGHT; row++) { ... }
RECURSIVE mark_rows_loop(_, _, _)
mark_rows_loop(m, row, y2) ==
  IF row <= y2 /\ row < SCREEN_HEIGHT
    THEN LET bit_index == row
             byte_index == bit_index \div 8
             bit_mask == 2 ^ (bit_index % 8)
         IN mark_rows_loop(mark_row(m, byte_index, bit_mask),
                           (row + 1) % UINT16_RANGE, y2)
    ELSE m

\* mark_rows_covered running one row past y2
mark_rows_covered_past_y2(m, y1, y2) ==
  mark_rows_loop(m, y1 % UINT16_RANGE, (y2 + 1) % UINT16_RANGE)

\* mark_rows_covered(uint16_t y1, uint16_t y2)
mark_rows_covered(m, y1, y2) ==
  mark_rows_loop(m, y1 % UINT16_RANGE, y2 % UINT16_RANGE)

\* all_rows_covered() with the mask of the last byte one bit short
all_rows_covered_short_mask(m) ==
  LET total_rows == SCREEN_HEIGHT
      full_bytes == total_rows \div 8
      remaining_bits == total_rows % 8
      mask == (2 ^ (remaining_bits - 1)) - 1
  IN IF \E i \in 0 .. full_bytes - 1 : m.full_refresh_row_bitmap[i] # 255
       THEN FALSE
       ELSE IF remaining_bits = 0 THEN TRUE
       ELSE m.full_refresh_row_bitmap[full_bytes] % (2 ^ (remaining_bits - 1)) = mask

\* all_rows_covered()
all_rows_covered(m) ==
  LET total_rows == SCREEN_HEIGHT
      full_bytes == total_rows \div 8
      remaining_bits == total_rows % 8
      mask == (2 ^ remaining_bits) - 1
  IN IF \E i \in 0 .. full_bytes - 1 : m.full_refresh_row_bitmap[i] # 255
       THEN FALSE
       ELSE IF remaining_bits = 0 THEN TRUE
       ELSE m.full_refresh_row_bitmap[full_bytes] % (2 ^ remaining_bits) = mask

(* ---- full refresh ----------------------------------------------------- *)
\* The replay loop: for y, for x: writePixel(x, y, get_full_frame_pixel(x, y)).
RECURSIVE replay_loop(_, _, _)
replay_loop(m, x, y) ==
  IF y >= SCREEN_HEIGHT THEN m
  ELSE IF x >= SCREEN_WIDTH THEN replay_loop(m, 0, y + 1)
  ELSE LET is_black == get_full_frame_pixel(m.full_frame_buffer, x, y)
       IN replay_loop(display_writePixel(m, x, y,
                         IF is_black THEN GxEPD_BLACK ELSE GxEPD_WHITE),
                      x + 1, y)

\* perform_full_refresh() that leaves full_refresh_pending set
perform_full_refresh_keeps_pending(m) ==
  LET m1 == display_hibernate(Emit(m, "full_refresh"))
      m2 == display_init(m1)
      m3 == display_setFullWindow(m2)
      m4 == display_firstPage(m3)
      m5 == replay_loop(m4, 0, 0)
      m6 == display_nextPage(m5)
  IN [m6 EXCEPT !.partial_update_count = 0,
                !.full_refresh_row_bitmap = [i \in DOMAIN @ |-> 0]]

\* perform_full_refresh() also wiping the shadow framebuffer
perform_full_refresh_wipes(m) ==
  LET m1 == display_hibernate(Emit(m, "full_refresh"))
      m2 == display_init(m1)
      m3 == display_setFullWindow(m2)
      m4 == display_firstPage(m3)
      m5 == replay_loop(m4, 0, 0)
      m6 == display_nextPage(m5)
  IN [m6 EXCEPT !.partial_update_count = 0,
                !.full_refresh_pending = FALSE,
                !.full_refresh_row_bitmap = [i \in DOMAIN @ |-> 0],
                !.full_frame_buffer = [i \in DOMAIN @ |-> 0]]

\* perform_full_refresh() returning when the panel did not answer
perform_full_refresh_gives_up(m) ==
  LET m1 == display_hibernate(Emit(m, "full_refresh"))
      m2 == display_init(m1)
      m3 == display_setFullWindow(m2)
      m4 == display_firstPage(m3)
      m5 == replay_loop(m4, 0, 0)
      m6 == display_nextPage(m5)
  IN IF m.panel_fault THEN m2
     ELSE [m6 EXCEPT !.partial_update_count = 0,
                     !.full_refresh_pending = FALSE,
                     !.full_refresh_row_bitmap = [i \in DOMAIN @ |-> 0]]

\* perform_full_refresh()
perform_full_refresh(m) ==
  LET m1 == display_hibernate(Emit(m, "full_refresh"))
      m2 == display_init(m1)
      m3 == display_setFullWindow(m2)
      m4 == display_firstPage(m3)
      m5 == replay_loop(m4, 0, 0)
      m6 == display_nextPage(m5)
  IN [m6 EXCEPT !.partial_update_count = 0,
                !.full_refresh_pending = FALSE,
                !.full_refresh_row_bitmap = [i \in DOMAIN @ |-> 0]]

\* schedule_full_refresh_request()
schedule_full_refresh_request(m) ==
  IF m.full_refresh_pending THEN m
  ELSE [m EXCEPT !.full_refresh_pending = TRUE,
                 !.full_refresh_row_bitmap = [i \in DOMAIN @ |-> 0],
                 !.fresh = {}]

\* lv_obj_invalidate(lv_screen_active())
lv_obj_invalidate_screen(m) == Emit(m, "invalidate_all")

\* eink_force_full_refresh() comparing with > instead of >=
eink_force_full_refresh_strict(m) ==
  IF m.full_refresh_pending THEN m
  ELSE IF m.partial_update_count > MAX_PARTIAL_UPDATES
    THEN lv_obj_invalidate_screen(schedule_full_refresh_request(m))
    ELSE m

\* eink_force_full_refresh() without the early return while pending
eink_force_full_refresh_unguarded(m) ==
  IF m.partial_update_count >= MAX_PARTIAL_UPDATES
    THEN lv_obj_invalidate_screen(schedule_full_refresh_request(m))
    ELSE m

\* eink_force_full_refresh() arming one flush before the threshold
eink_force_full_refresh_early(m) ==
  IF m.full_refresh_pending THEN m
  ELSE IF m.partial_update_count + 1 >= MAX_PARTIAL_UPDATES
    THEN lv_obj_invalidate_screen(schedule_full_refresh_request(m))
    ELSE m

\* eink_force_full_refresh()
eink_force_full_refresh(m) ==
  IF m.full_refresh_pending THEN m
  ELSE IF m.partial_update_count >= MAX_PARTIAL_UPDATES
    THEN lv_obj_invalidate_screen(schedule_full_refresh_request(m))
    ELSE m

\* eink_force_full_refresh() of a build with another threshold, comparing
\* with > instead of >=
eink_force_full_refresh_with_strict(m, max_partial_updates) ==
  IF m.full_refresh_pending THEN m
  ELSE IF m.partial_update_count > max_partial_updates
    THEN lv_obj_invalidate_screen(schedule_full_refresh_request(m))
    ELSE m

\* eink_force_full_refresh() of a build whose config.h defines
\* MAX_PARTIAL_UPDATES as max_partial_updates
eink_force_full_refresh_with(m, max_partial_updates) ==
  IF m.full_refresh_pending THEN m
  ELSE IF m.partial_update_count >= max_partial_updates
    THEN lv_obj_invalidate_screen(schedule_full_refresh_request(m))
    ELSE m

(* ---- pixel format conversion ------------------------------------------ *)
\* (px_map[lvgl_byte_idx] >> lvgl_bit) & 0x01, px_map already advanced by 8
lvgl_pixel(px_map, lvgl_stride, x, y) ==
  LET lvgl_byte_idx == y * lvgl_stride + (x \div 8)
      lvgl_bit == 7 - (x % 8)
  IN (px_map[PALETTE_BYTES + lvgl_byte_idx] \div (2 ^ lvgl_bit)) % 2

\* is_black without the inversion
pixel_is_black_not_inverted(pixel) == pixel = 1

\* bool is_black = (pixel == 0)
pixel_is_black(pixel) == pixel = 0

\* The bit loop without the test x < w: the padding bits are converted too
RECURSIVE convert_bits_unclipped(_, _, _, _, _, _, _)
convert_bits_unclipped(m, area, px_map, y, byte_x, bit, epd_byte) ==
  IF bit >= 8 THEN [m |-> m, epd_byte |-> epd_byte]
  ELSE LET w == area.x2 - area.x1 + 1
           x == byte_x * 8 + bit
           pixel == lvgl_pixel(px_map, CeilDiv8(w), x, y)
           is_black == pixel_is_black(pixel)
           b == IF is_black THEN OrMask(epd_byte, Shr80(bit)) ELSE epd_byte
           m1 == set_full_frame_pixel(m, area.x1 + x, area.y1 + y, is_black)
       IN convert_bits_unclipped(m1, area, px_map, y, byte_x, bit + 1, b)

\* for (bit = 0; bit < 8; bit++) { ... } : returns the engine and epd_byte
RECURSIVE convert_bits(_, _, _, _, _, _, _)
convert_bits(m, area, px_map, y, byte_x, bit, epd_byte) ==
  IF bit >= 8 THEN [m |-> m, epd_byte |-> epd_byte]
  ELSE LET w == area.x2 - area.x1 + 1
           x == byte_x * 8 + bit
       IN IF x < w
            THEN LET pixel == lvgl_pixel(px_map, CeilDiv8(w), x, y)
                     is_black == pixel_is_black(pixel)
                     b == IF is_black THEN OrMask(epd_byte, Shr80(bit))
                          ELSE epd_byte
                     m1 == set_full_frame_pixel(m, area.x1 + x, area.y1 + y,
                                                is_black)
                 IN convert_bits(m1, area, px_map, y, byte_x, bit + 1, b)
            ELSE convert_bits(m, area, px_map, y, byte_x, bit + 1, epd_byte)

\* for (byte_x = 0; byte_x < epd_stride; byte_x++) { ... }, inside
\* if (epd_buffer)
RECURSIVE convert_bytes(_, _, _, _, _)
convert_bytes(m, area, px_map, y, byte_x) ==
  LET epd_stride == CeilDiv8(area.x2 - area.x1 + 1)
  IN IF byte_x >= epd_stride \/ m.epd_buffer # "allocated" THEN m
     ELSE LET r == convert_bits(m, area, px_map, y, byte_x, 0, 0)
              idx == y * epd_stride + byte_x
              m1 == IF idx \in DOMAIN r.m.converted
                      THEN [r.m EXCEPT !.converted[idx] = r.epd_byte]
                      ELSE Emit(r.m, "scratch_overrun")
          IN convert_bytes(m1, area, px_map, y, byte_x + 1)

\* for (y = 0; y < h; y++) { ... }, inside if (epd_buffer)
RECURSIVE convert_rows(_, _, _, _)
convert_rows(m, area, px_map, y) ==
  IF y >= area.y2 - area.y1 + 1 \/ m.epd_buffer # "allocated" THEN m
  ELSE convert_rows(convert_bytes(m, area, px_map, y, 0), area, px_map, y + 1)

\* The drawing loops between firstPage and nextPage read the scratch buffer.
\* for (bit = 0; bit < 8; bit++) { ... writePixel ... }
RECURSIVE draw_bits(_, _, _, _, _, _)
draw_bits(m, area, y, byte_x, bit, data_byte) ==
  IF bit >= 8 THEN m
  ELSE LET w == area.x2 - area.x1 + 1
           x == byte_x * 8 + bit
       IN IF x < w
            THEN LET is_black == TestMask(data_byte, Shr80(bit))
                 IN draw_bits(display_writePixel(m, area.x1 + x, area.y1 + y,
                                IF is_black THEN GxEPD_BLACK ELSE GxEPD_WHITE),
                              area, y, byte_x, bit + 1, data_byte)
            ELSE draw_bits(m, area, y, byte_x, bit + 1, data_byte)

\* for (byte_x = 0; byte_x < epd_stride; byte_x++) { data_byte = ...; ... }
RECURSIVE draw_bytes(_, _, _, _)
draw_bytes(m, area, y, byte_x) ==
  LET epd_stride == CeilDiv8(area.x2 - area.x1 + 1)
  IN IF byte_x >= epd_stride \/ m.epd_buffer # "allocated" THEN m
     ELSE LET data_byte == m.converted[y * epd_stride + byte_x]
          IN draw_bytes(draw_bits(m, area, y, byte_x, 0, data_byte),
                        area, y, byte_x + 1)

\* for (y = 0; y < h; y++) { ... }
RECURSIVE draw_rows(_, _, _)
draw_rows(m, area, y) ==
  IF y >= area.y2 - area.y1 + 1 \/ m.epd_buffer # "allocated" THEN m
  ELSE draw_rows(draw_bytes(m, area, y, 0), area, y + 1)

\* malloc(buffer_size) that succeeded: the buffer exists, contents arbitrary
\* until written (every byte is written by the conversion).
malloc_scratch(m, buffer_size) ==
  Emit([m EXCEPT !.epd_buffer = "allocated",
                 !.converted = [i \in 0 .. buffer_size - 1 |-> 0]], "malloc")

\* malloc(buffer_size) that returned NULL
malloc_null(m) ==
  Emit([m EXCEPT !.epd_buffer = "null", !.converted = <<>>], "malloc_failed")

\* free(epd_buffer)
free_scratch(m) ==
  Emit([m EXCEPT !.epd_buffer = IF @ = "allocated" THEN "null" ELSE "bad_free"],
       "free")

\* the conversion branch without free(epd_buffer)
flush_converted_leaks(m, area, px_map) ==
  LET m1 == convert_rows(m, area, px_map, 0)
      m2 == display_firstPage(m1)
      m3 == draw_rows(m2, area, 0)
  IN display_nextPage(m3)

\* if (epd_buffer) { convert; draw; free }
flush_converted(m, area, px_map) ==
  LET m1 == convert_rows(m, area, px_map, 0)
      m2 == display_firstPage(m1)
      m3 == draw_rows(m2, area, 0)
      m4 == display_nextPage(m3)
  IN free_scratch(m4)

\* the allocation-failure branch also wiping the shadow framebuffer
flush_alloc_failed_clears(m) ==
  display_nextPage(display_firstPage(
    [m EXCEPT !.full_frame_buffer = [i \in DOMAIN @ |-> 0]]))

\* the allocation-failure branch also dropping the scheduled refresh
flush_alloc_failed_disarms(m) ==
  display_nextPage(display_firstPage(
    [m EXCEPT !.full_refresh_pending = FALSE]))

\* else { firstPage; do {} while (nextPage) }
flush_alloc_failed(m) ==
  display_nextPage(display_firstPage(m))

\* the coverage step marking the rows of every flush, armed or not
flush_coverage_marks_idle(m, area) ==
  LET m1 == mark_rows_covered(m, area.y1, area.y2)
  IN IF m.full_refresh_pending /\ all_rows_covered(m1)
       THEN perform_full_refresh(m1) ELSE m1

\* the coverage step skipped by a flush whose allocation failed
flush_coverage_needs_conversion(m, area) ==
  IF m.full_refresh_pending
       /\ ~\E i \in 1 .. Len(m.events) : m.events[i] = "malloc_failed"
    THEN LET m1 == mark_rows_covered(m, area.y1, area.y2)
         IN IF all_rows_covered(m1) THEN perform_full_refresh(m1) ELSE m1
    ELSE m

\* if (full_refresh_pending) { mark rows; if all covered: full refresh }
flush_coverage(m, area) ==
  IF m.full_refresh_pending
    THEN LET m1 == mark_rows_covered(m, area.y1, area.y2)
         IN IF all_rows_covered(m1) THEN perform_full_refresh(m1) ELSE m1
    ELSE m

\* lv_display_flush_ready(disp)
lv_display_flush_ready(m) == Emit(m, "flush_ready")

\* my_disp_flush returning from the allocation-failure branch
my_disp_flush_early_return(m, area, px_map, alloc_ok) ==
  LET w == area.x2 - area.x1 + 1
      h == area.y2 - area.y1 + 1
      m1 == display_setPartialWindow(m, area.x1, area.y1, w, h)
      m2 == [m1 EXCEPT !.partial_update_count = (@ + 1) % UINT8_RANGE]
      epd_stride == CeilDiv8(w)
      buffer_size == epd_stride * h
      m3 == IF alloc_ok THEN malloc_scratch(m2, buffer_size) ELSE malloc_null(m2)
  IN IF m3.epd_buffer = "allocated"
       THEN lv_display_flush_ready(
              flush_coverage(flush_converted(m3, area, px_map), area))
       ELSE flush_alloc_failed(m3)

\* my_disp_flush running the coverage step before the conversion
my_disp_flush_coverage_first(m, area, px_map, alloc_ok) ==
  LET w == area.x2 - area.x1 + 1
      h == area.y2 - area.y1 + 1
      m1 == display_setPartialWindow(m, area.x1, area.y1, w, h)
      m2 == [m1 EXCEPT !.partial_update_count = (@ + 1) % UINT8_RANGE]
      epd_stride == CeilDiv8(w)
      buffer_size == epd_stride * h
      m3 == flush_coverage(m2, area)
      m4 == IF alloc_ok THEN malloc_scratch(m3, buffer_size) ELSE malloc_null(m3)
      m5 == IF m4.epd_buffer = "allocated"
              THEN flush_converted(m4, area, px_map)
              ELSE flush_alloc_failed(m4)
  IN lv_display_flush_ready(m5)

\* my_disp_flush acknowledging the flush before the coverage step
my_disp_flush_acks_first(m, area, px_map, alloc_ok) ==
  LET w == area.x2 - area.x1 + 1
      h == area.y2 - area.y1 + 1
      m1 == display_setPartialWindow(m, area.x1, area.y1, w, h)
      m2 == [m1 EXCEPT !.partial_update_count = (@ + 1) % UINT8_RANGE]
      epd_stride == CeilDiv8(w)
      buffer_size == epd_stride * h
      m3 == IF alloc_ok THEN malloc_scratch(m2, buffer_size) ELSE malloc_null(m2)
      m4 == IF m3.epd_buffer = "allocated"
              THEN flush_converted(m3, area, px_map)
              ELSE flush_alloc_failed(m3)
  IN flush_coverage(lv_display_flush_ready(m4), area)

\* my_disp_flush counting only the flushes that got a scratch buffer
my_disp_flush_counts_converted(m, area, px_map, alloc_ok) ==
  LET w == area.x2 - area.x1 + 1
      h == area.y2 - area.y1 + 1
      m1 == display_setPartialWindow(m, area.x1, area.y1, w, h)
      m2 == IF alloc_ok
              THEN [m1 EXCEPT !.partial_update_count = (@ + 1) % UINT8_RANGE]
              ELSE m1
      epd_stride == CeilDiv8(w)
      buffer_size == epd_stride * h
      m3 == IF alloc_ok THEN malloc_scratch(m2, buffer_size) ELSE malloc_null(m2)
      m4 == IF m3.epd_buffer = "allocated"
              THEN flush_converted(m3, area, px_map)
              ELSE flush_alloc_failed(m3)
      m5 == flush_coverage(m4, area)
  IN lv_display_flush_ready(m5)

\* my_disp_flush(disp, area, px_map); alloc_ok is the outcome of malloc
my_disp_flush(m, area, px_map, alloc_ok) ==
  LET w == area.x2 - area.x1 + 1
      h == area.y2 - area.y1 + 1
      m1 == display_setPartialWindow(m, area.x1, area.y1, w, h)
      m2 == [m1 EXCEPT !.partial_update_count = (@ + 1) % UINT8_RANGE]
      epd_stride == CeilDiv8(w)
      buffer_size == epd_stride * h
      m3 == IF alloc_ok THEN malloc_scratch(m2, buffer_size) ELSE malloc_null(m2)
      m4 == IF m3.epd_buffer = "allocated"
              THEN flush_converted(m3, area, px_map)
              ELSE flush_alloc_failed(m3)
      m5 == flush_coverage(m4, area)
  IN lv_display_flush_ready(m5)

(* ---- inputs ------------------------------------------------------------ *)
\* Dirty rectangles LVGL hands to the flush callback: inside the display.
Areas ==
  { [x1 |-> a, y1 |-> b, x2 |-> c, y2 |-> d] :
      <<a, b, c, d>> \in { q \in (0 .. SCREEN_WIDTH - 1) \X (0 .. SCREEN_HEIGHT - 1)
                                \X (0 .. SCREEN_WIDTH - 1) \X (0 .. SCREEN_HEIGHT - 1) :
                             q[1] <= q[3] /\ q[2] <= q[4] } }

\* The 8 palette bytes in front of the pixel data (two 4-byte colours).
PaletteHeader == <<0, 0, 0, 255, 255, 255, 255, 255>>

\* Row bytes of one colour: all w pixels black (bits 0) or all white (bits 1).
\* The unused trailing bits of a row byte are 0, which is "black" in the source
\* convention, so a read past w would show.
UniformRowBytes(w) == { 0, ((2 ^ w) - 1) * (2 ^ (8 - w)) }

\* A px_map buffer: header followed by h rows of one byte each (the modelled
\* displays are at most 8 pixels wide).  0-based.
PxMap(h, rows) ==
  [i \in 0 .. PALETTE_BYTES + h - 1 |->
     IF i < PALETTE_BYTES THEN PaletteHeader[i + 1] ELSE rows[i - PALETTE_BYTES]]

\* Row y of a pattern in which every pixel has colour bit `most` except the
\* pixel odd (relative coordinates), when it lies in the row.
PatternRow(w, y, most, odd) ==
  LET all == most * ((2 ^ w) - 1) * (2 ^ (8 - w))
      one == 2 ^ (7 - odd[1])
  IN IF odd[2] # y THEN all
     ELSE IF most = 1 THEN all - one ELSE all + one

\* The px_map buffers of the recorded flushes: one colour throughout, or one
\* colour with a single pixel of the other colour.
PxMaps(area) ==
  LET w == area.x2 - area.x1 + 1
      h == area.y2 - area.y1 + 1
  IN { PxMap(h, [y \in 0 .. h - 1 |-> PatternRow(w, y, most, odd)]) :
         most \in {0, 1},
         odd \in ((0 .. w - 1) \X (0 .. h - 1)) \cup {<<w, h>>} }

\* Buffers of a single colour.
UniformPxMaps(area) ==
  LET w == area.x2 - area.x1 + 1
      h == area.y2 - area.y1 + 1
  IN { PxMap(h, [y \in 0 .. h - 1 |-> b]) : b \in UniformRowBytes(w) }

\* Rectangles that span the panel's width, or its first column only.
BandAreas == { a \in Areas : a.x1 = 0 /\ a.x2 \in {0, SCREEN_WIDTH - 1} }

NoArea == [x1 |-> 0, y1 |-> 0, x2 |-> 0, y2 |-> 0]

(* ---- state machine ----------------------------------------------------- *)
\* The application's screens, pointers and topics.
SCREEN_SPLASH == 0
SCREEN_GRID_POWER == 1
SCREEN_COUNT == 2
NULL == 0
MQTT_TOPIC_GRID_POWER == "data/devices/utility_meter/total_active_power"
MQTT_TOPIC_SOLAR_POWER == "shelly_solar_power"

NoAppCall == [op |-> "none", screen_id |-> SCREEN_SPLASH, delivered |-> <<>>,
              lost |-> FALSE, reachable |-> FALSE, grid |-> 0, solar |-> 0]

NoCall == [op |-> "none", area |-> NoArea, px_map |-> <<>>, alloc_ok |-> TRUE]

\* No update cycle is in progress.
NoCycle == [phase |-> "idle", todo |-> {}, start_count |-> 0,
            after_flush |-> FALSE, refreshed |-> FALSE]

Rows(area) == { r \in 0 .. SCREEN_HEIGHT - 1 : area.y1 <= r /\ r <= area.y2 }

InArea(p, area) ==
  /\ area.x1 <= p[1] /\ p[1] <= area.x2
  /\ area.y1 <= p[2] /\ p[2] <= area.y2

\* Colour the caller gives to pixel p of the panel in a flush of area: LVGL I1
\* data after the header, one row per ceil(w/8) bytes, MSB first, 0 = black.
\* The result is in the panel convention, 1 = black.
GivenColour(px_map, area, p) ==
  LET x == p[1] - area.x1
      y == p[2] - area.y1
      stride == CeilDiv8(area.x2 - area.x1 + 1)
      byte == px_map[PALETTE_BYTES + y * stride + (x \div 8)]
  IN IF (byte \div (2 ^ (7 - (x % 8)))) % 2 = 0 THEN GxEPD_BLACK ELSE GxEPD_WHITE

\* The program state, and the calls made, after a handler has run.
Commit(m) ==
  /\ partial_update_count' = m.partial_update_count
  /\ full_frame_buffer' = m.full_frame_buffer
  /\ full_refresh_pending' = m.full_refresh_pending
  /\ full_refresh_row_bitmap' = m.full_refresh_row_bitmap
  /\ epd_buffer' = m.epd_buffer
  /\ events' = m.events

\* The arguments and the pixel traffic of the call are recorded ...
Observed(m, area, px_map, alloc_ok) ==
  /\ converted' = m.converted
  /\ panel_writes' = m.panel_writes
  /\ last_call' = [op |-> "my_disp_flush", area |-> area, px_map |-> px_map,
                   alloc_ok |-> alloc_ok]

\* ... or only the handler's name and the outcome of malloc.
Unobserved(op, alloc_ok) ==
  /\ converted' = <<>>
  /\ panel_writes' = <<>>
  /\ last_call' = [op |-> op, area |-> NoArea, px_map |-> <<>>,
                   alloc_ok |-> alloc_ok]

\* The colour each pixel was last given by a flush is followed.
TrackLatest(area, px_map, alloc_ok) ==
  /\ latest_flushed' = [p \in Pixels |->
                          IF InArea(p, area) THEN GivenColour(px_map, area, p)
                          ELSE latest_flushed[p]]
  /\ latest_converted' = [p \in Pixels |->
                            IF InArea(p, area) /\ alloc_ok
                              THEN GivenColour(px_map, area, p)
                              ELSE latest_converted[p]]

Init ==
  /\ partial_update_count = 0
  /\ full_frame_buffer = [i \in 0 .. FrameBytes - 1 |-> 0]
  /\ full_refresh_pending = FALSE
  /\ full_refresh_row_bitmap = [i \in 0 .. RowBitmapBytes - 1 |-> 0]
  /\ epd_buffer = "null"
  /\ converted = <<>>
  /\ events = <<>>
  /\ panel_writes = <<>>
  /\ last_call = NoCall
  /\ fresh = {}
  /\ rows_flushed = {}
  /\ latest_flushed = [p \in Pixels |-> GxEPD_WHITE]
  /\ latest_converted = [p \in Pixels |-> GxEPD_WHITE]
  /\ flushes_since = 0
  /\ cycle = NoCycle
  /\ panel_fault = FALSE
  /\ wifi_connected = FALSE
  /\ mqtt_connected = FALSE
  /\ current_screen_id = SCREEN_SPLASH
  /\ display_needs_refresh = FALSE
  /\ screens = [id \in 0 .. SCREEN_COUNT - 1 |-> NULL]
  /\ ui = [ui_Screen_Splash |-> NULL, ui_Label_Splash_Status |-> NULL,
           ui_Screen_GridPower |-> NULL, ui_Label_Grid_Value |-> NULL,
           ui_Label_House_Value |-> NULL, ui_Label_Solar_Value |-> NULL,
           ui_Label_Arrow_GridHome |-> NULL, ui_Label_Arrow_HomeSolar |-> NULL]
  /\ current_grid = 0
  /\ current_solar = 0
  /\ lv = [inited |-> FALSE, objs |-> {}, act_scr |-> NULL, dirty |-> {}]
  /\ mqttClient = [connected |-> FALSE, subscriptions |-> {}]
  /\ broker_up = TRUE
  /\ booted = FALSE
  /\ halted = FALSE
  /\ app_call = NoAppCall

\* LVGL calls the flush callback with a dirty rectangle and its pixels; m is
\* the engine the callback leaves.
Flush(m, area) ==
  /\ Commit(m)
  /\ rows_flushed' = IF full_refresh_pending
                       THEN rows_flushed \cup Rows(area) ELSE {}
  /\ flushes_since' = IF \E i \in 1 .. Len(m.events) : m.events[i] = "full_refresh"
                        THEN 0
                        ELSE IF flushes_since < UINT8_RANGE
                          THEN flushes_since + 1 ELSE flushes_since
  /\ UNCHANGED <<panel_fault, appvars>>

\* The application calls the threshold check; m is the engine it leaves.
ForceFull(m) ==
  /\ Commit(m)
  /\ rows_flushed' = IF full_refresh_pending THEN rows_flushed ELSE {}
  /\ Unobserved("eink_force_full_refresh", TRUE)
  /\ UNCHANGED <<latest_flushed, latest_converted, flushes_since, panel_fault,
                 appvars>>

(* Spec: the refresh decision engine.  Flushes of single-colour bands and    *)
(* threshold checks in any order, as long as the counter is below MaxCount. *)
FlushStep ==
  /\ partial_update_count < MaxCount
  /\ \E area \in BandAreas : \E px_map \in UniformPxMaps(area) :
        \E alloc_ok \in BOOLEAN :
          /\ Flush(my_disp_flush(Engine, area, px_map, alloc_ok), area)
          /\ Unobserved("my_disp_flush", alloc_ok)
          /\ fresh' = {}
          /\ UNCHANGED <<latest_flushed, latest_converted, cycle>>

ForceFullRefresh ==
  /\ ForceFull(eink_force_full_refresh(Engine))
  /\ fresh' = {}
  /\ UNCHANGED cycle

Next == FlushStep \/ ForceFullRefresh

Spec == Init /\ [][Next]_vars

(* SpecFresh: the same engine, with any single-colour rectangle, following   *)
(* which pixels have been stored in the shadow framebuffer since arming.     *)
FreshFlushStep ==
  /\ partial_update_count < MaxCount
  /\ \E area \in Areas : \E px_map \in UniformPxMaps(area) :
        \E alloc_ok \in BOOLEAN :
          \E m \in {my_disp_flush(Engine, area, px_map, alloc_ok)} :
            /\ Flush(m, area)
            /\ Unobserved("my_disp_flush", alloc_ok)
            /\ fresh' = m.fresh
            /\ UNCHANGED <<latest_flushed, latest_converted, cycle>>

FreshForceFullRefresh ==
  \E m \in {eink_force_full_refresh(Engine)} :
    /\ ForceFull(m)
    /\ fresh' = m.fresh
    /\ UNCHANGED cycle

NextFresh == FreshFlushStep \/ FreshForceFullRefresh

SpecFresh == Init /\ [][NextFresh]_vars

(* SpecConv: the pixel path.  Below the threshold, single-colour flushes     *)
(* that convert; then one flush, of a pattern, converting or failing to      *)
(* allocate, recorded with its arguments and its pixel traffic.              *)
Recorded == last_call.px_map # <<>>

PriorFlushStep ==
  /\ ~Recorded
  /\ partial_update_count < MAX_PARTIAL_UPDATES
  /\ \E area \in Areas : \E px_map \in UniformPxMaps(area) :
        /\ Flush(my_disp_flush(Engine, area, px_map, TRUE), area)
        /\ Unobserved("my_disp_flush", TRUE)
        /\ TrackLatest(area, px_map, TRUE)
        /\ fresh' = {}
        /\ UNCHANGED cycle

ConvFlushStep ==
  /\ ~Recorded
  /\ \E area \in Areas : \E px_map \in PxMaps(area) : \E alloc_ok \in BOOLEAN :
        \E m \in {my_disp_flush(Engine, area, px_map, alloc_ok)} :
          /\ Flush(m, area)
          /\ Observed(m, area, px_map, alloc_ok)
          /\ TrackLatest(area, px_map, alloc_ok)
          /\ fresh' = {}
          /\ UNCHANGED cycle

NextConv == PriorFlushStep \/ ConvFlushStep

SpecConv == Init /\ [][NextConv]_vars

(* SpecWrap: flushes of the top row only, without a bound on their number:   *)
(* the rows are never all covered, and the 8-bit counter runs through its    *)
(* whole range.                                                              *)
TopRow == [x1 |-> 0, y1 |-> 0, x2 |-> SCREEN_WIDTH - 1, y2 |-> 0]

WrapFlushStep ==
  \E px_map \in UniformPxMaps(TopRow) : \E alloc_ok \in BOOLEAN :
    /\ Flush(my_disp_flush(Engine, TopRow, px_map, alloc_ok), TopRow)
    /\ Unobserved("my_disp_flush", alloc_ok)
    /\ fresh' = {}
    /\ UNCHANGED <<latest_flushed, latest_converted, cycle>>

NextWrap == WrapFlushStep \/ ForceFullRefresh

SpecWrap == Init /\ [][NextWrap]_vars

(* SpecReplay: the engine of Spec, followed by one flush recorded with its   *)
(* pixel traffic, which shows what a full refresh writes to the panel.       *)
ReplayPrior == ~Recorded /\ Next

ReplayFlushStep ==
  /\ ~Recorded
  /\ partial_update_count < MaxCount
  /\ \E area \in BandAreas : \E px_map \in UniformPxMaps(area) :
        \E alloc_ok \in BOOLEAN :
          \E m \in {my_disp_flush(Engine, area, px_map, alloc_ok)} :
            /\ Flush(m, area)
            /\ Observed(m, area, px_map, alloc_ok)
            /\ fresh' = {}
            /\ UNCHANGED <<latest_flushed, latest_converted, cycle>>

NextReplay == ReplayPrior \/ ReplayFlushStep

SpecReplay == Init /\ [][NextReplay]_vars

(* SpecCycle: the main loop's update cycle.  loop() calls the threshold    *)
(* check and then lv_refr_now, which hands the dirty rows to the flush       *)
(* callback band by band; after an invalidate-all request every row of the   *)
(* panel is dirty.                                                           *)
\* loop(): eink_force_full_refresh(); lv_refr_now(...) starts redrawing.  m is
\* the engine the threshold check leaves.
LoopUpdate(m) ==
  /\ cycle.phase = "idle"
  /\ ForceFull(m)
  /\ fresh' = {}
  /\ \E dirty \in SUBSET (0 .. SCREEN_HEIGHT - 1) :
        cycle' = [phase |-> "redraw",
                  todo |-> IF \E i \in 1 .. Len(m.events) :
                                  m.events[i] = "invalidate_all"
                             THEN 0 .. SCREEN_HEIGHT - 1 ELSE dirty,
                  start_count |-> partial_update_count,
                  after_flush |-> last_call.op = "my_disp_flush",
                  refreshed |-> FALSE]

CycleUpdate == LoopUpdate(eink_force_full_refresh(Engine))

\* lv_refr_now hands one band of dirty rows to my_disp_flush.
RedrawFlush ==
  /\ cycle.phase = "redraw"
  /\ cycle.todo # {}
  /\ \E area \in BandAreas : \E px_map \in UniformPxMaps(area) :
        \E alloc_ok \in BOOLEAN :
          \E m \in {my_disp_flush(Engine, area, px_map, alloc_ok)} :
            /\ Rows(area) \subseteq cycle.todo
            /\ Flush(m, area)
            /\ Unobserved("my_disp_flush", alloc_ok)
            /\ fresh' = {}
            /\ cycle' = [cycle EXCEPT
                           !.todo = @ \ Rows(area),
                           !.refreshed = @ \/ \E i \in 1 .. Len(m.events) :
                                                 m.events[i] = "full_refresh"]
            /\ UNCHANGED <<latest_flushed, latest_converted>>

\* lv_refr_now returns; loop() powers the panel off and clears
\* display_needs_refresh.
RedrawEnd ==
  /\ cycle.phase = "redraw"
  /\ cycle.todo = {}
  /\ cycle' = [cycle EXCEPT !.phase = "idle"]
  /\ UNCHANGED <<partial_update_count, full_frame_buffer, full_refresh_pending,
                 full_refresh_row_bitmap, epd_buffer, converted, events,
                 panel_writes, last_call, fresh, rows_flushed, latest_flushed,
                 latest_converted, flushes_since, panel_fault, appvars>>

NextCycle == CycleUpdate \/ RedrawFlush \/ RedrawEnd

SpecCycle == Init /\ [][NextCycle]_vars

\* The progress a RedrawFlush step makes, without the callback's effects:
\* fewer rows are left to flush.
RedrawBand ==
  /\ cycle.phase = "redraw"
  /\ cycle.todo # {}
  /\ \E t \in (SUBSET cycle.todo) \ {cycle.todo} : \E r \in BOOLEAN :
        cycle' = [cycle EXCEPT !.todo = t, !.refreshed = r]

\* lv_refr_now runs to completion: as long as rows are left it hands a band
\* to the flush callback, and then it returns.
LiveCycle == SpecCycle /\ WF_cycle(RedrawBand) /\ WF_vars(RedrawEnd)

(* SpecCycleOne: the update cycle of a build with MAX_PARTIAL_UPDATES = 1.  *)
CycleUpdateOne == LoopUpdate(eink_force_full_refresh_with(Engine, 1))

NextCycleOne == CycleUpdateOne \/ RedrawFlush \/ RedrawEnd

SpecCycleOne == Init /\ [][NextCycleOne]_vars

(* SpecFault: the engine of Spec with a panel that may stop, and start      *)
(* again, answering its reinitialisation.                                    *)
PanelFaultStep ==
  /\ panel_fault' = ~panel_fault
  /\ UNCHANGED <<partial_update_count, full_frame_buffer, full_refresh_pending,
                 full_refresh_row_bitmap, epd_buffer, converted, events,
                 panel_writes, last_call, fresh, rows_flushed, latest_flushed,
                 latest_converted, flushes_since, cycle, appvars>>

NextFault == Next \/ PanelFaultStep

SpecFault == Init /\ [][NextFault]_vars

(* SpecRows: mark_rows_covered applied to row spans of every kind: inside   *)
(* the panel, past its last row, reversed, and at the end of the 16-bit      *)
(* range.                                                                    *)
RowArgs == (0 .. SCREEN_HEIGHT + 1) \cup {UINT16_RANGE - 2, UINT16_RANGE - 1}

MarkRowsStep ==
  \E y1 \in RowArgs : \E y2 \in RowArgs :
    /\ Commit(mark_rows_covered(Engine, y1, y2))
    /\ converted' = <<>>
    /\ panel_writes' = <<>>
    /\ last_call' = [op |-> "mark_rows_covered",
                     area |-> [x1 |-> 0, y1 |-> y1, x2 |-> 0, y2 |-> y2],
                     px_map |-> <<>>, alloc_ok |-> TRUE]
    /\ UNCHANGED <<fresh, rows_flushed, latest_flushed, latest_converted,
                   flushes_since, cycle, panel_fault, appvars>>

NextRows == MarkRowsStep

SpecRows == Init /\ [][NextRows]_vars

(* ====================================================================== *)
(* The MQTT application: screen manager, connection handling, main loop    *)
(* ====================================================================== *)
\* The application state as one record, threaded through the handlers; m is
\* the display engine, whose events list takes every call in order.
App ==
  [wifi_connected |-> wifi_connected,
   mqtt_connected |-> mqtt_connected,
   current_screen_id |-> current_screen_id,
   display_needs_refresh |-> display_needs_refresh,
   screens |-> screens,
   ui |-> ui,
   current_grid |-> current_grid,
   current_solar |-> current_solar,
   lv |-> lv,
   mqttClient |-> mqttClient,
   broker_up |-> broker_up,
   halted |-> halted,
   delivered |-> <<>>,
   m |-> Engine]

Call(a, e) == [a EXCEPT !.m = Emit(@, e)]
Called(m, e) == \E i \in 1 .. Len(m.events) : m.events[i] = e

(* ---- the toolkit (LVGL) as the application uses it ---------------------- *)
\* A value is computed once and handed to the statements that follow it.
Bind(v, rest(_)) == CHOOSE out \in { rest(x) : x \in {v} } : TRUE

ScreenRows == 0 .. SCREEN_HEIGHT - 1
\* The value labels and arrows lie in the upper part of the panel, the splash
\* status label at its lower edge.
ValueRow == 0
StatusRow == SCREEN_HEIGHT - 1

\* lv_obj_create(NULL): the lowest free object
lv_obj_create(a) ==
  CHOOSE o \in 1 .. MaxObjects :
    /\ o \notin a.lv.objs
    /\ \A p \in 1 .. o - 1 : p \in a.lv.objs

\* lv_obj_del(obj): the object and its children are freed; LVGL is left
\* without an active screen when the active screen is deleted.
lv_obj_del(a, obj) ==
  [a EXCEPT !.lv.objs = @ \ {obj},
            !.lv.act_scr = IF @ = obj THEN NULL ELSE @]

\* lv_label_set_text(label, text): the label's rows become dirty when its
\* screen is shown.  A label handle is the screen object it was created on.
lv_label_set_text(a, label, row) ==
  [a EXCEPT !.lv.dirty = IF label = a.lv.act_scr THEN @ \cup {row} ELSE @]

\* lv_screen_load(obj)
lv_screen_load(a, obj) ==
  Call([a EXCEPT !.lv.act_scr = obj, !.lv.dirty = ScreenRows], "lv_screen_load")

\* The I1 buffer LVGL renders for a band of the active screen (bit 1 =
\* white): the splash screen's text is drawn black, the power screen's band
\* changes with the values it shows.
RenderedPxMap(a, area) ==
  LET w == area.x2 - area.x1 + 1
      h == area.y2 - area.y1 + 1
      colour == IF a.lv.act_scr = a.ui.ui_Screen_GridPower
                  THEN (a.current_grid + a.current_solar + 1) % 2
                  ELSE 0
  IN PxMap(h, [y \in 0 .. h - 1 |-> colour * ((2 ^ w) - 1) * (2 ^ (8 - w))])

\* lv_refr_now(eink_get_display()): the dirty rows of the active screen are
\* rendered and handed to the flush callback as one band.
lv_refr_now(a0, r) ==
  Bind(a0, LAMBDA a :
    IF a.halted \/ a.lv.dirty = {} \/ a.lv.act_scr = NULL THEN a
    ELSE LET y1 == CHOOSE y \in a.lv.dirty : \A z \in a.lv.dirty : y <= z
             y2 == CHOOSE y \in a.lv.dirty : \A z \in a.lv.dirty : z <= y
             area == [x1 |-> 0, y1 |-> y1, x2 |-> SCREEN_WIDTH - 1, y2 |-> y2]
         IN Bind(my_disp_flush(a.m, area, RenderedPxMap(a, area), r.alloc_ok),
                 LAMBDA m1 : [a EXCEPT !.m = m1, !.lv.dirty = {}]))

\* eink_init(): display.init(...), lv_init(), lv_display_create(...), which
\* gives the display a default active screen.
eink_init(a0) ==
  Bind(a0, LAMBDA a :
    LET o == lv_obj_create(a)
    IN [a EXCEPT !.m = display_init(@),
                 !.lv = [inited |-> TRUE, objs |-> a.lv.objs \cup {o},
                         act_scr |-> o, dirty |-> ScreenRows]])

\* eink_poweroff(): the panel drive voltages are cut
eink_poweroff(m) == Emit(m, "eink_poweroff")

(* ---- splash screen ------------------------------------------------------ *)
ui_Screen_Splash_init(a0) ==
  Bind(a0, LAMBDA a :
    LET o == lv_obj_create(a)
    IN Call([a EXCEPT !.lv.objs = @ \cup {o},
                      !.ui.ui_Screen_Splash = o,
                      !.ui.ui_Label_Splash_Status = o], "screen_init"))

ui_Screen_Splash_destroy(a0) ==
  Bind(a0, LAMBDA a :
    Bind(IF a.ui.ui_Screen_Splash # NULL
           THEN lv_obj_del(a, a.ui.ui_Screen_Splash) ELSE a,
         LAMBDA a1 :
           Call([a1 EXCEPT !.ui.ui_Screen_Splash = NULL,
                           !.ui.ui_Label_Splash_Status = NULL],
                "screen_destroy")))

ui_Screen_Splash_get_obj(a) == a.ui.ui_Screen_Splash

ui_Screen_Splash_set_status(a0) ==
  Bind(a0, LAMBDA a :
    IF a.ui.ui_Label_Splash_Status # NULL
      THEN lv_label_set_text(a, a.ui.ui_Label_Splash_Status, StatusRow)
      ELSE a)

(* ---- grid power screen -------------------------------------------------- *)
\* canvas_ok: heap_caps_malloc returned a buffer
ui_Screen_GridPower_init(a0, canvas_ok) ==
  Bind(a0, LAMBDA a :
    LET o == lv_obj_create(a)
    IN Bind(Call([a EXCEPT !.lv.objs = @ \cup {o},
                           !.ui.ui_Screen_GridPower = o], "screen_init"),
            LAMBDA a1 :
              IF ~canvas_ok THEN a1
              ELSE [a1 EXCEPT !.ui.ui_Label_Arrow_GridHome = o,
                              !.ui.ui_Label_Arrow_HomeSolar = o,
                              !.ui.ui_Label_Grid_Value = o,
                              !.ui.ui_Label_House_Value = o,
                              !.ui.ui_Label_Solar_Value = o]))

ui_Screen_GridPower_destroy(a0) ==
  Bind(a0, LAMBDA a :
    Bind(IF a.ui.ui_Screen_GridPower # NULL
           THEN lv_obj_del(a, a.ui.ui_Screen_GridPower) ELSE a,
         LAMBDA a1 :
           Call([a1 EXCEPT !.ui.ui_Screen_GridPower = NULL,
                           !.ui.ui_Label_Grid_Value = NULL,
                           !.ui.ui_Label_House_Value = NULL,
                           !.ui.ui_Label_Solar_Value = NULL,
                           !.ui.ui_Label_Arrow_GridHome = NULL,
                           !.ui.ui_Label_Arrow_HomeSolar = NULL],
                "screen_destroy")))

ui_Screen_GridPower_get_obj(a) == a.ui.ui_Screen_GridPower

ui_Screen_GridPower_on_activate(a) == Call(a, "on_activate")
ui_Screen_GridPower_on_deactivate(a) == Call(a, "on_deactivate")

\* The five handles update_power_display writes through.
PowerLabels(a) ==
  { a.ui.ui_Label_Grid_Value, a.ui.ui_Label_House_Value,
    a.ui.ui_Label_Solar_Value, a.ui.ui_Label_Arrow_GridHome,
    a.ui.ui_Label_Arrow_HomeSolar }

\* update_power_display(): five lv_label_set_text calls.  A call through a
\* null handle is undefined: the firmware stops there, or the write is lost.
update_power_display(a0, ub) ==
  Bind(a0, LAMBDA a :
    IF NULL \in PowerLabels(a)
      THEN Bind(Call(a, "null_label_write"), LAMBDA a1 :
             IF ub = "halt" THEN [a1 EXCEPT !.halted = TRUE] ELSE a1)
      ELSE Bind(lv_label_set_text(Call(a, "update_power_display"),
                                  a.ui.ui_Label_Grid_Value, ValueRow),
             LAMBDA a1 :
           Bind(lv_label_set_text(a1, a.ui.ui_Label_House_Value, ValueRow),
             LAMBDA a2 :
           Bind(lv_label_set_text(a2, a.ui.ui_Label_Solar_Value, ValueRow),
             LAMBDA a3 :
           Bind(lv_label_set_text(a3, a.ui.ui_Label_Arrow_GridHome, ValueRow),
             LAMBDA a4 :
           lv_label_set_text(a4, a.ui.ui_Label_Arrow_HomeSolar, ValueRow))))))

\* trigger_display_refresh()
trigger_display_refresh(a) ==
  Call([a EXCEPT !.display_needs_refresh = TRUE], "trigger_display_refresh")

\* deserializeJson(doc, payload) fails
DeserializationError(payload) == payload = "{"
\* doc["value"] | 0.0
JsonValue(payload) == IF payload = "{\"value\":1}" THEN 1 ELSE 0
\* atof(payload)
atof(payload) == IF payload = "1" THEN 1 ELSE 0

\* if (updated) { update_power_display(); trigger_display_refresh(); }
power_updated(a, ub) ==
  Bind(update_power_display(a, ub), LAMBDA a1 :
    IF a1.halted THEN a1 ELSE trigger_display_refresh(a1))

ui_Screen_GridPower_on_mqtt_message(a, topic, payload, ub) ==
  IF topic = MQTT_TOPIC_GRID_POWER
    THEN IF DeserializationError(payload) THEN a
         ELSE power_updated([a EXCEPT !.current_grid = JsonValue(payload)], ub)
    ELSE IF topic = MQTT_TOPIC_SOLAR_POWER
      THEN power_updated([a EXCEPT !.current_solar = atof(payload)], ub)
      ELSE a

(* ---- screen registry and screen manager --------------------------------- *)
\* screens[id].on_mqtt_message, .on_activate, .on_deactivate are set
has_mqtt_hooks(id) == id = SCREEN_GRID_POWER

screen_init(a, id, canvas_ok) ==
  IF id = SCREEN_SPLASH THEN ui_Screen_Splash_init(a)
  ELSE ui_Screen_GridPower_init(a, canvas_ok)

screen_destroy(a, id) ==
  IF id = SCREEN_SPLASH THEN ui_Screen_Splash_destroy(a)
  ELSE ui_Screen_GridPower_destroy(a)

screen_get_obj(a, id) ==
  IF id = SCREEN_SPLASH THEN ui_Screen_Splash_get_obj(a)
  ELSE ui_Screen_GridPower_get_obj(a)

\* load_screen(screen_id) of the MQTT application
load_screen(a0, screen_id, canvas_ok) ==
  Bind(a0, LAMBDA a :
    LET old == a.current_screen_id
        is_different_screen == (old # screen_id) \/ (a.screens[old] # NULL)
    IN Bind(IF is_different_screen /\ has_mqtt_hooks(old)
              THEN ui_Screen_GridPower_on_deactivate(a) ELSE a,
         LAMBDA a1 :
       Bind(screen_init(a1, screen_id, canvas_ok),
         LAMBDA a2 :
       Bind([a2 EXCEPT !.screens[screen_id] = screen_get_obj(a2, screen_id)],
         LAMBDA a3 :
       Bind(IF a3.screens[screen_id] # NULL
              THEN lv_screen_load(a3, a3.screens[screen_id]) ELSE a3,
         LAMBDA a4 :
       Bind(IF is_different_screen THEN screen_destroy(a4, old) ELSE a4,
         LAMBDA a5 :
       Bind(IF has_mqtt_hooks(screen_id)
              THEN ui_Screen_GridPower_on_activate(a5) ELSE a5,
         LAMBDA a6 :
       [a6 EXCEPT !.current_screen_id = screen_id])))))))

(* ---- connection handling ------------------------------------------------ *)
\* mqttClient.connect(...): succeeds when the broker can be reached
mqttClient_connect(a0) ==
  Bind(a0, LAMBDA a :
    IF a.broker_up
      THEN Call([a EXCEPT !.mqttClient = [connected |-> TRUE,
                                          subscriptions |-> {}]], "connect")
      ELSE Call(a, "connect_failed"))

\* mqttClient.subscribe(topic)
mqttClient_subscribe(a0, topic) ==
  Bind(a0, LAMBDA a :
    IF a.mqttClient.connected
      THEN [a EXCEPT !.mqttClient.subscriptions = @ \cup {topic}]
      ELSE a)

\* connect_wifi(): wifi_ok is the outcome of the 30 status polls
connect_wifi(a, wifi_ok, r) ==
  Bind(lv_refr_now(ui_Screen_Splash_set_status(a), r), LAMBDA a1 :
    Bind(IF wifi_ok THEN [a1 EXCEPT !.wifi_connected = TRUE] ELSE a1,
      LAMBDA a2 : lv_refr_now(ui_Screen_Splash_set_status(a2), r)))

\* while (!mqttClient.connected() && attempts < 5) { ... }
RECURSIVE connect_mqtt_attempts(_, _, _)
connect_mqtt_attempts(a0, r, attempts) ==
  Bind(a0, LAMBDA a :
    IF a.mqttClient.connected \/ attempts >= 5 THEN a
    ELSE Bind(mqttClient_connect(a), LAMBDA a1 :
           IF a1.mqttClient.connected
             THEN Bind(lv_refr_now(ui_Screen_Splash_set_status(
                                     [a1 EXCEPT !.mqtt_connected = TRUE]), r),
                    LAMBDA a3 :
                  Bind(mqttClient_subscribe(a3, MQTT_TOPIC_GRID_POWER),
                    LAMBDA a4 :
                  Bind(mqttClient_subscribe(a4, MQTT_TOPIC_SOLAR_POWER),
                    LAMBDA a5 : connect_mqtt_attempts(a5, r, attempts))))
             ELSE connect_mqtt_attempts(a1, r, attempts + 1)))

\* connect_mqtt()
connect_mqtt(a, r) ==
  Bind(lv_refr_now(ui_Screen_Splash_set_status(a), r), LAMBDA a1 :
    Bind(connect_mqtt_attempts(a1, r, 0), LAMBDA a2 :
      IF ~a2.mqtt_connected
        THEN lv_refr_now(ui_Screen_Splash_set_status(a2), r)
        ELSE a2))

\* reconnect_mqtt()
reconnect_mqtt(a0) ==
  Bind(a0, LAMBDA a :
    IF ~a.mqttClient.connected
      THEN Bind(mqttClient_connect([a EXCEPT !.mqtt_connected = FALSE]),
             LAMBDA a1 :
               IF a1.mqttClient.connected
                 THEN Bind(mqttClient_subscribe(
                             [a1 EXCEPT !.mqtt_connected = TRUE],
                             MQTT_TOPIC_GRID_POWER),
                        LAMBDA a2 :
                          mqttClient_subscribe(a2, MQTT_TOPIC_SOLAR_POWER))
                 ELSE a1)
      ELSE a)

\* mqtt_callback(topic, payload, length)
mqtt_callback(a, msg, ub) ==
  Bind([a EXCEPT !.delivered = Append(@, msg)], LAMBDA a1 :
    IF has_mqtt_hooks(a1.current_screen_id)
      THEN ui_Screen_GridPower_on_mqtt_message(a1, msg.topic, msg.payload, ub)
      ELSE a1)

\* mqttClient.loop(): the messages that have arrived on subscribed topics are
\* handed to the callback, in order.
RECURSIVE mqttClient_loop(_, _, _, _)
mqttClient_loop(a0, msgs, i, ub) ==
  Bind(a0, LAMBDA a :
    IF i > Len(msgs) \/ a.halted \/ ~a.mqttClient.connected THEN a
    ELSE IF msgs[i].topic \in a.mqttClient.subscriptions
      THEN mqttClient_loop(mqtt_callback(a, msgs[i], ub), msgs, i + 1, ub)
      ELSE mqttClient_loop(a, msgs, i + 1, ub))

(* ---- setup() and loop() ------------------------------------------------- *)
\* setup()
setup(a, wifi_ok, canvas_ok, r) ==
  Bind(eink_init(a), LAMBDA a1 :
  Bind(lv_refr_now(load_screen(a1, SCREEN_SPLASH, TRUE), r), LAMBDA a2 :
  Bind(connect_wifi(a2, wifi_ok, r), LAMBDA a3 :
  Bind(IF a3.wifi_connected THEN connect_mqtt(a3, r) ELSE a3, LAMBDA a4 :
    IF a4.wifi_connected /\ a4.mqtt_connected
      THEN Bind(lv_refr_now(ui_Screen_Splash_set_status(a4), r), LAMBDA a5 :
             lv_refr_now(load_screen(a5, SCREEN_GRID_POWER, canvas_ok), r))
      ELSE a4))))

\* The display refresh block of loop() with the panel powered off before the
\* redraw
loop_refresh_poweroff_first(a0, r) ==
  Bind(a0, LAMBDA a :
    IF a.halted \/ ~a.display_needs_refresh THEN a
    ELSE Bind(Call(a, "eink_force_full_refresh"), LAMBDA a1 :
         Bind(eink_force_full_refresh(a1.m), LAMBDA m1 :
         Bind([a1 EXCEPT !.m = eink_poweroff(m1),
                         !.lv.dirty = IF Called(m1, "invalidate_all")
                                        THEN ScreenRows ELSE @],
           LAMBDA a2 :
         Bind(lv_refr_now(Call(a2, "lv_refr_now"), r), LAMBDA a3 :
           Call([a3 EXCEPT !.display_needs_refresh = FALSE],
                "display_needs_refresh = false"))))))

\* if (display_needs_refresh) { eink_force_full_refresh(); lv_refr_now(...);
\* eink_poweroff(); display_needs_refresh = false; }
loop_refresh(a0, r) ==
  Bind(a0, LAMBDA a :
    IF a.halted \/ ~a.display_needs_refresh THEN a
    ELSE Bind(Call(a, "eink_force_full_refresh"), LAMBDA a1 :
         Bind(eink_force_full_refresh(a1.m), LAMBDA m1 :
         Bind([a1 EXCEPT !.m = m1,
                         !.lv.dirty = IF Called(m1, "invalidate_all")
                                        THEN ScreenRows ELSE @],
           LAMBDA a2 :
         Bind(lv_refr_now(Call(a2, "lv_refr_now"), r), LAMBDA a3 :
         Bind([a3 EXCEPT !.m = eink_poweroff(@)], LAMBDA a4 :
           Call([a4 EXCEPT !.display_needs_refresh = FALSE],
                "display_needs_refresh = false")))))))

\* loop()
loop(a0, msgs, r, ub) ==
  Bind(a0, LAMBDA a :
    Bind(IF a.wifi_connected /\ a.mqtt_connected
           THEN mqttClient_loop(IF ~a.mqttClient.connected
                                  THEN reconnect_mqtt(a) ELSE a,
                                msgs, 1, ub)
           ELSE a,
         LAMBDA a1 : loop_refresh(a1, r)))

(* ---- inputs ------------------------------------------------------------- *)
Topics == {MQTT_TOPIC_GRID_POWER, MQTT_TOPIC_SOLAR_POWER}
\* Grid power as a JSON object or as a truncated document; solar power as a
\* plain number.
Messages ==
  { [topic |-> MQTT_TOPIC_GRID_POWER, payload |-> "{\"value\":1}"],
    [topic |-> MQTT_TOPIC_GRID_POWER, payload |-> "{"],
    [topic |-> MQTT_TOPIC_SOLAR_POWER, payload |-> "1"] }
MsgSeqs == UNION { [1 .. n -> Messages] : n \in 0 .. MaxMsgs }
\* malloc in the flush callback returns a buffer, or not
Renders == [alloc_ok : BOOLEAN]

(* ---- the application's steps -------------------------------------------- *)
\* The program state after an application handler has run.
AppCommit(a, op) ==
  /\ Commit(a.m)
  /\ wifi_connected' = a.wifi_connected
  /\ mqtt_connected' = a.mqtt_connected
  /\ current_screen_id' = a.current_screen_id
  /\ display_needs_refresh' = a.display_needs_refresh
  /\ screens' = a.screens
  /\ ui' = a.ui
  /\ current_grid' = a.current_grid
  /\ current_solar' = a.current_solar
  /\ lv' = a.lv
  /\ mqttClient' = a.mqttClient
  /\ halted' = a.halted
  /\ Unobserved(op, TRUE)
  /\ fresh' = {}
  /\ UNCHANGED <<broker_up, rows_flushed, latest_flushed, latest_converted,
                 flushes_since, cycle, panel_fault>>

\* The handler called, with what it met on entry.
AppCalled(a, op, screen_id) ==
  app_call' = [op |-> op, screen_id |-> screen_id, delivered |-> a.delivered,
               lost |-> ~mqttClient.connected, reachable |-> broker_up,
               grid |-> current_grid, solar |-> current_solar]

\* Messages arrive only over a connection, the one in place or the one this
\* iteration makes.
Arrivals ==
  IF wifi_connected /\ mqtt_connected /\ (mqttClient.connected \/ broker_up)
    THEN MsgSeqs ELSE {<<>>}

\* What a write through a null handle does, where one can happen.
Outcomes == IF NULL \in PowerLabels(App) THEN {"halt", "ignored"} ELSE {"halt"}

SetupStep ==
  /\ ~booted
  /\ ~lv.inited
  /\ \E wifi_ok \in BOOLEAN : \E canvas_ok \in BOOLEAN : \E r \in Renders :
       \E a \in {setup(App, wifi_ok, canvas_ok, r)} :
         /\ AppCommit(a, "setup")
         /\ AppCalled(a, "setup", a.current_screen_id)
  /\ booted' = TRUE

LoopStep ==
  /\ booted
  /\ ~halted
  /\ \E msgs \in Arrivals : \E r \in Renders : \E ub \in Outcomes :
       \E a \in {loop(App, msgs, r, ub)} :
         /\ AppCommit(a, "loop")
         /\ AppCalled(a, "loop", a.current_screen_id)
  /\ UNCHANGED booted

\* The broker becomes unreachable, or reachable again.
BrokerStep ==
  /\ broker_up' = ~broker_up
  /\ last_call' = [NoCall EXCEPT !.op = "broker"]
  /\ app_call' = NoAppCall
  /\ UNCHANGED <<enginevars, wifi_connected, mqtt_connected, current_screen_id,
                 display_needs_refresh, screens, ui, current_grid,
                 current_solar, lv, mqttClient, booted, halted>>

\* The connection to the broker is lost; the session's subscriptions go.
ConnectionLostStep ==
  /\ mqttClient.connected
  /\ mqttClient' = [connected |-> FALSE, subscriptions |-> {}]
  /\ last_call' = [NoCall EXCEPT !.op = "connection_lost"]
  /\ app_call' = NoAppCall
  /\ UNCHANGED <<enginevars, wifi_connected, mqtt_connected, current_screen_id,
                 display_needs_refresh, screens, ui, current_grid,
                 current_solar, lv, broker_up, booted, halted>>

NextApp == SetupStep \/ LoopStep \/ BrokerStep \/ ConnectionLostStep

SpecApp == Init /\ [][NextApp]_vars

(* SpecScreens: the screen manager on its own: after eink_init, load_screen *)
(* is called with every screen id, in any order, and the display is redrawn  *)
(* after a call as setup() does.                                             *)
EinkInitStep ==
  /\ ~booted
  /\ ~lv.inited
  /\ \E a \in {eink_init(App)} :
       /\ AppCommit(a, "eink_init")
       /\ AppCalled(a, "eink_init", a.current_screen_id)
  /\ UNCHANGED booted

LoadScreenStep ==
  /\ ~booted
  /\ lv.inited
  /\ Cardinality(lv.objs) < MaxObjects
  /\ \E screen_id \in 0 .. SCREEN_COUNT - 1 : \E canvas_ok \in BOOLEAN :
       \E a \in {load_screen(App, screen_id, canvas_ok)} :
         /\ AppCommit(a, "load_screen")
         /\ AppCalled(a, "load_screen", screen_id)
  /\ UNCHANGED booted

RefreshNowStep ==
  /\ ~booted
  /\ lv.inited
  /\ partial_update_count < MaxCount
  /\ \E r \in Renders : \E a \in {lv_refr_now(App, r)} :
       /\ AppCommit(a, "lv_refr_now")
       /\ AppCalled(a, "lv_refr_now", a.current_screen_id)
  /\ UNCHANGED booted

NextScreens == EinkInitStep \/ LoadScreenStep \/ RefreshNowStep

SpecScreens == Init /\ [][NextScreens]_vars

(* ====================================================================== *)
(* Properties                                                              *)
(* ====================================================================== *)
EvCountIn(evs, e) == Cardinality({ i \in 1 .. Len(evs) : evs[i] = e })
HasIn(evs, e) == \E i \in 1 .. Len(evs) : evs[i] = e
EvCount(e) == EvCountIn(events, e)
Has(e) == HasIn(events, e)

AllRows == 0 .. SCREEN_HEIGHT - 1

\* Bit of row r in a row bitmap: byte r / 8, bit r % 8 counted from the LSB.
RowMarkedIn(bitmap, r) == (bitmap[r \div 8] \div (2 ^ (r % 8))) % 2 = 1
RowMarked(r) == RowMarkedIn(full_refresh_row_bitmap, r)
BitmapClearIn(bitmap) == \A i \in DOMAIN bitmap : bitmap[i] = 0

\* Colour of pixel p in a framebuffer: bit y * W + x, counted from the MSB of
\* byte 0; 1 = black.
ShadowIn(fb, p) ==
  LET n == p[2] * SCREEN_WIDTH + p[1]
  IN (fb[n \div 8] \div (2 ^ (7 - (n % 8)))) % 2
Shadow(p) == ShadowIn(full_frame_buffer, p)

FlushCalled == last_call.op = "my_disp_flush"
CheckCalled == last_call.op = "eink_force_full_refresh"

\* C1: every invocation of my_disp_flush calls lv_display_flush_ready exactly
\* once, as its last call, on every path (conversion, allocation failure,
\* full refresh executed inside the flush).
C1_FlushReadyExactlyOnce ==
  FlushCalled =>
    /\ EvCount("flush_ready") = 1
    /\ events[Len(events)] = "flush_ready"

\* A flush whose allocation failed and which executed the full refresh.
C1_Witness ==
  /\ FlushCalled
  /\ ~last_call.alloc_ok
  /\ Has("full_refresh")
  /\ EvCount("flush_ready") = 1

\* C2: a full refresh executes only when the flushes received since arming
\* have touched every row 0 .. H-1, and while armed the bitmap has exactly
\* the bits of the rows those flushes touched: one missing row blocks it.
C2_RefreshOnlyWhenAllRowsCovered ==
  /\ Has("full_refresh") => FlushCalled /\ rows_flushed = AllRows
  /\ full_refresh_pending =>
       \A r \in AllRows : RowMarked(r) <=> r \in rows_flushed

\* Armed, a flush has marked some rows but not all, and no refresh ran.
C2_Witness ==
  /\ full_refresh_pending
  /\ FlushCalled
  /\ rows_flushed # {}
  /\ rows_flushed # AllRows
  /\ ~Has("full_refresh")

\* C3: whenever a full refresh executes, every pixel of the panel has been
\* written into the shadow framebuffer by a flush since the refresh was armed.
C3_RefreshReplaysCurrentFrame ==
  Has("full_refresh") => fresh = Pixels

\* C4: partial_update_count never decreases from one step to the next, except
\* by a reset to 0 that is part of executing a full refresh.
C4_CounterMonotone ==
  [][ \/ partial_update_count' >= partial_update_count
      \/ (partial_update_count' = 0 /\ HasIn(events', "full_refresh")) ]_vars

\* The threshold check arms the refresh in this step.
Arms == ~full_refresh_pending /\ full_refresh_pending'

\* C5: the threshold check invoked while idle arms a full refresh iff
\* partial_update_count >= MAX_PARTIAL_UPDATES; arming sets the pending flag,
\* leaves the row bitmap all-zero and issues the invalidate-all request once;
\* below the threshold nothing changes and nothing is requested; the request
\* is issued on no other occasion.
C5_ThresholdCheckArms ==
  [][ /\ (last_call'.op = "eink_force_full_refresh" /\ ~full_refresh_pending) =>
           IF partial_update_count >= MAX_PARTIAL_UPDATES
             THEN /\ full_refresh_pending'
                  /\ BitmapClearIn(full_refresh_row_bitmap')
                  /\ EvCountIn(events', "invalidate_all") = 1
                  /\ UNCHANGED <<partial_update_count, full_frame_buffer>>
             ELSE /\ UNCHANGED <<partial_update_count, full_frame_buffer,
                                 full_refresh_pending, full_refresh_row_bitmap>>
                  /\ ~HasIn(events', "invalidate_all")
      /\ HasIn(events', "invalidate_all") =>
           /\ last_call'.op = "eink_force_full_refresh"
           /\ Arms
           /\ partial_update_count >= MAX_PARTIAL_UPDATES ]_vars

\* The check has just armed a refresh and requested the invalidation.
C5_Witness ==
  /\ CheckCalled
  /\ full_refresh_pending
  /\ EvCount("invalidate_all") = 1
  /\ partial_update_count >= MAX_PARTIAL_UPDATES

\* C6: the threshold check invoked while armed leaves the row bitmap, the
\* pending flag and the counter unchanged and requests no invalidation.
C6_CheckWhileArmedIsNoOp ==
  [][ (last_call'.op = "eink_force_full_refresh" /\ full_refresh_pending) =>
        /\ UNCHANGED <<full_refresh_row_bitmap, full_refresh_pending,
                       partial_update_count>>
        /\ ~HasIn(events', "invalidate_all") ]_vars

\* The check ran while armed, with some rows already marked.
C6_Witness ==
  /\ CheckCalled
  /\ full_refresh_pending
  /\ events = <<>>
  /\ \E r \in AllRows : RowMarked(r)

\* Position of the first occurrence of e in evs (0 if absent).
FirstIn(evs, e) ==
  IF HasIn(evs, e) THEN CHOOSE i \in 1 .. Len(evs) :
                          evs[i] = e /\ \A j \in 1 .. i - 1 : evs[j] # e
  ELSE 0

\* C7: when a flush received while armed completes the coverage of rows
\* 0 .. H-1, the full refresh runs inside that flush call, before the flush is
\* acknowledged, and on return the counter is 0, the pending flag false and
\* the row bitmap all-zero.
C7_CoverageTriggersRefresh ==
  [][ (last_call'.op = "my_disp_flush" /\ full_refresh_pending
         /\ rows_flushed' = AllRows) =>
        /\ EvCountIn(events', "full_refresh") = 1
        /\ FirstIn(events', "full_refresh") < FirstIn(events', "flush_ready")
        /\ partial_update_count' = 0
        /\ ~full_refresh_pending'
        /\ BitmapClearIn(full_refresh_row_bitmap') ]_vars

\* A flush that completed the coverage and ran the refresh.
C7_Witness ==
  /\ FlushCalled
  /\ Has("full_refresh")
  /\ rows_flushed = AllRows
  /\ partial_update_count = 0
  /\ ~full_refresh_pending

\* C8: a flush whose scratch allocation fails leaves every bit of the shadow
\* framebuffer as it was.
C8_AllocFailureKeepsShadow ==
  [][ (last_call'.op = "my_disp_flush" /\ ~last_call'.alloc_ok) =>
        full_frame_buffer' = full_frame_buffer ]_vars

\* An allocation-failed flush that would have changed a pixel of its area.
C8_Witness ==
  /\ Recorded
  /\ ~last_call.alloc_ok
  /\ \E p \in Pixels :
        /\ InArea(p, last_call.area)
        /\ Shadow(p) = GxEPD_BLACK
        /\ GivenColour(last_call.px_map, last_call.area, p) = GxEPD_WHITE

\* C9 as claimed: every shadow pixel has the colour given to it by the most
\* recent flush that covered it, and 0 if no flush covered it.
C9_ShadowIsLatestFlushed ==
  \A p \in Pixels : Shadow(p) = latest_flushed[p]

\* C9 as amended: every shadow pixel has the colour given to it by the most
\* recent flush that covered it and whose scratch buffer was allocated, and 0
\* if no such flush covered it.
C9_ShadowIsLatestConverted ==
  \A p \in Pixels : Shadow(p) = latest_converted[p]

\* Two flushes: the second repaints the corner pixel white, every other pixel
\* is black, so the first one covered the whole panel and the two overlap.
C9_Witness ==
  /\ partial_update_count = 2
  /\ Recorded
  /\ last_call.alloc_ok
  /\ last_call.area = [x1 |-> 0, y1 |-> 0, x2 |-> 0, y2 |-> 0]
  /\ Shadow(<<0, 0>>) = GxEPD_WHITE
  /\ \A p \in Pixels \ {<<0, 0>>} : Shadow(p) = GxEPD_BLACK

\* Bit of pixel (x, y) of the area in the converted buffer: MSB first,
\* ceil(w/8) bytes per row.
DestBit(buf, area, p) ==
  LET x == p[1] - area.x1
      y == p[2] - area.y1
      stride == CeilDiv8(area.x2 - area.x1 + 1)
  IN (buf[y * stride + (x \div 8)] \div (2 ^ (7 - (x % 8)))) % 2

\* C10: for every pixel of a flushed rectangle the converted bit is 1 iff the
\* source bit is 0 (black); the shadow framebuffer records that value at the
\* pixel's panel coordinates and the panel is written that value.
C10_ConversionPolarity ==
  (Recorded /\ last_call.alloc_ok) =>
    \A p \in Pixels :
      InArea(p, last_call.area) =>
        LET given == GivenColour(last_call.px_map, last_call.area, p)
        IN /\ DestBit(converted, last_call.area, p) = given
           /\ Shadow(p) = given
           /\ \E i \in 1 .. Len(panel_writes) :
                 panel_writes[i] = <<p[1], p[2], given>>
           /\ \A i \in 1 .. Len(panel_writes) :
                 (panel_writes[i][1] = p[1] /\ panel_writes[i][2] = p[2]) =>
                   panel_writes[i][3] = given

\* A converted flush of a rectangle with both black and white source pixels,
\* not at the panel's origin.
C10_Witness ==
  /\ Recorded
  /\ last_call.alloc_ok
  /\ last_call.area.x1 > 0
  /\ last_call.area.y2 > last_call.area.y1
  /\ \E p, q \in Pixels :
        /\ InArea(p, last_call.area) /\ InArea(q, last_call.area)
        /\ Shadow(p) = GxEPD_BLACK /\ Shadow(q) = GxEPD_WHITE

\* C11: once armed, the flushes of the redraw that answers the invalidate-all
\* request cover every row, so a full refresh eventually executes and the
\* engine is idle again; this happens within the update cycle that armed it:
\* the engine is never armed between two update cycles, and a cycle that
\* began at or above the threshold has executed a full refresh when it ends.
C11_ArmedRefreshesWithinCycle ==
  /\ [](cycle.phase = "idle" => ~full_refresh_pending)
  /\ []((cycle.phase = "idle" /\ cycle.start_count >= MAX_PARTIAL_UPDATES) =>
          cycle.refreshed)
  /\ (full_refresh_pending ~> (~full_refresh_pending /\ Has("full_refresh")))

\* An update cycle that armed the refresh has ended, idle, refresh executed.
C11_Witness ==
  /\ cycle.phase = "idle"
  /\ cycle.start_count >= MAX_PARTIAL_UPDATES
  /\ cycle.refreshed
  /\ ~full_refresh_pending
  /\ partial_update_count = 0

\* C12: while fewer than MAX_PARTIAL_UPDATES flush calls have been made since
\* startup or since the last full refresh, the engine is idle, whatever
\* threshold checks were interleaved; and a full refresh executes only in a
\* step before which at least MAX_PARTIAL_UPDATES flush calls had been made
\* since the previous one.
C12_BelowThresholdStaysIdle ==
  /\ [](flushes_since < MAX_PARTIAL_UPDATES => ~full_refresh_pending)
  /\ [][HasIn(events', "full_refresh") =>
          flushes_since >= MAX_PARTIAL_UPDATES]_vars

\* A threshold check interleaved one flush below the threshold: still idle.
C12_Witness ==
  /\ CheckCalled
  /\ flushes_since = MAX_PARTIAL_UPDATES - 1
  /\ partial_update_count = MAX_PARTIAL_UPDATES - 1
  /\ ~full_refresh_pending
  /\ events = <<>>

\* The writes a replay of framebuffer fb makes: every pixel once, row by row.
RowMajor(fb) ==
  [i \in 1 .. SCREEN_WIDTH * SCREEN_HEIGHT |->
     LET x == (i - 1) % SCREEN_WIDTH
         y == (i - 1) \div SCREEN_WIDTH
     IN <<x, y, ShadowIn(fb, <<x, y>>)>>]

\* Colour the panel shows at p after the writes ws: that of the last write.
PanelShows(ws, p) ==
  LET last == CHOOSE i \in 1 .. Len(ws) :
                /\ ws[i][1] = p[1] /\ ws[i][2] = p[2]
                /\ \A j \in i + 1 .. Len(ws) : ~(ws[j][1] = p[1] /\ ws[j][2] = p[2])
  IN ws[last][3]

\* C13: a full refresh calls hibernate, init, setFullWindow and firstPage in
\* this order, then writes every pixel of the panel once, in row-major order,
\* with the colour the shadow framebuffer holds, and ends the page; the panel
\* then shows the shadow framebuffer at every pixel.  The writes are the same
\* whether or not the flush had a scratch buffer.
C13_RefreshReplaysShadow ==
  (Recorded /\ Has("full_refresh")) =>
    LET k == FirstIn(events, "full_refresh")
        n == SCREEN_WIDTH * SCREEN_HEIGHT
        area == last_call.area
        drawn == IF last_call.alloc_ok
                   THEN (area.x2 - area.x1 + 1) * (area.y2 - area.y1 + 1) ELSE 0
    IN /\ SubSeq(events, k, k + 5) =
            <<"full_refresh", "hibernate", "init", "setFullWindow",
              "firstPage", "nextPage">>
       /\ Len(panel_writes) = drawn + n
       /\ SubSeq(panel_writes, drawn + 1, drawn + n) = RowMajor(full_frame_buffer)
       /\ \A p \in Pixels : PanelShows(panel_writes, p) = Shadow(p)

\* A full refresh executed by a flush that had no scratch buffer, replaying a
\* shadow framebuffer with black and white pixels.
C13_Witness ==
  /\ Recorded
  /\ Has("full_refresh")
  /\ ~last_call.alloc_ok
  /\ Shadow(<<SCREEN_WIDTH - 1, 0>>) = GxEPD_BLACK
  /\ Shadow(<<0, SCREEN_HEIGHT - 1>>) = GxEPD_WHITE

C15_RefreshResetsRegardless ==
  [][ /\ HasIn(events', "full_refresh") =>
           /\ EvCountIn(events', "full_refresh") = 1
           /\ EvCountIn(events', "hibernate") = 1
           /\ EvCountIn(events', "init") = 1
           /\ partial_update_count' = 0
           /\ ~full_refresh_pending'
           /\ BitmapClearIn(full_refresh_row_bitmap')
      /\ (last_call'.op = "eink_force_full_refresh" /\ ~full_refresh_pending
            /\ partial_update_count < MAX_PARTIAL_UPDATES) =>
           ~full_refresh_pending' ]_vars

\* A flush has executed a full refresh during which the panel did not answer
\* its reinitialisation, and has reset the engine.
C15_Witness ==
  /\ FlushCalled
  /\ Has("full_refresh")
  /\ Has("init_unanswered")
  /\ partial_update_count = 0
  /\ ~full_refresh_pending

\* C16: for any row span, mark_rows_covered returns, writes no byte outside
\* full_refresh_row_bitmap, sets the bits of the rows r with
\* y1 <= r <= min(y2, H-1) and changes no other bit and nothing else.
C16_MarkRowsClamps ==
  [][ last_call'.op = "mark_rows_covered" =>
        LET y1 == last_call'.area.y1
            y2 == last_call'.area.y2
        IN /\ ~HasIn(events', "row_bitmap_overrun")
           /\ DOMAIN full_refresh_row_bitmap' = 0 .. RowBitmapBytes - 1
           /\ \A r \in 0 .. 8 * RowBitmapBytes - 1 :
                 RowMarkedIn(full_refresh_row_bitmap', r) <=>
                   \/ RowMarkedIn(full_refresh_row_bitmap, r)
                   \/ (y1 <= r /\ r <= y2 /\ r <= SCREEN_HEIGHT - 1)
           /\ UNCHANGED <<partial_update_count, full_frame_buffer,
                          full_refresh_pending>> ]_vars

\* A span that starts inside the panel and ends at the largest 16-bit value:
\* the last row is marked, the first is not.
C16_Witness ==
  /\ last_call.op = "mark_rows_covered"
  /\ last_call.area.y1 = SCREEN_HEIGHT - 1
  /\ last_call.area.y2 = UINT16_RANGE - 1
  /\ RowMarked(SCREEN_HEIGHT - 1)
  /\ ~RowMarked(0)

\* C17: no scratch buffer is allocated when a handler has returned.  A flush
\* whose malloc succeeded frees the buffer exactly once, after the page that
\* draws from it has ended and before any full refresh; a flush whose malloc
\* failed frees nothing; the buffer is never written outside its bounds.
C17_ScratchBufferReleased ==
  /\ epd_buffer = "null"
  /\ ~Has("scratch_overrun")
  /\ FlushCalled =>
       IF last_call.alloc_ok
         THEN /\ EvCount("malloc") = 1
              /\ EvCount("free") = 1
              /\ FirstIn(events, "malloc") < FirstIn(events, "firstPage")
              /\ FirstIn(events, "nextPage") < FirstIn(events, "free")
              /\ Has("full_refresh") =>
                   FirstIn(events, "free") < FirstIn(events, "full_refresh")
         ELSE /\ EvCount("malloc_failed") = 1
              /\ EvCount("malloc") = 0
              /\ EvCount("free") = 0

\* A flush that converted, freed its buffer and then ran the full refresh.
C17_Witness ==
  /\ FlushCalled
  /\ last_call.alloc_ok
  /\ Has("full_refresh")
  /\ EvCount("free") = 1
  /\ epd_buffer = "null"

\* C18: every call of my_disp_flush adds one to partial_update_count (an 8-bit
\* counter) before anything can reset it, idle or armed, whether or not the
\* scratch allocation succeeded: the call returns with the counter one higher,
\* or with 0 when it executed the full refresh.
C18_EveryFlushCounts ==
  [][ last_call'.op = "my_disp_flush" =>
        partial_update_count' =
          IF HasIn(events', "full_refresh") THEN 0
          ELSE (partial_update_count + 1) % UINT8_RANGE ]_vars

\* A flush made while armed, whose allocation failed and which did not
\* complete the coverage, has counted beyond the threshold.
C18_Witness ==
  /\ FlushCalled
  /\ ~last_call.alloc_ok
  /\ full_refresh_pending
  /\ ~Has("full_refresh")
  /\ partial_update_count > MAX_PARTIAL_UPDATES

\* C19: full_refresh_pending, once true, stays true through every flush and
\* every threshold check; it becomes false only in a flush that executes
\* perform_full_refresh.
C19_PendingUntilRefresh ==
  [][ (full_refresh_pending /\ ~full_refresh_pending') =>
        /\ last_call'.op = "my_disp_flush"
        /\ HasIn(events', "full_refresh") ]_vars

\* Still armed after two flushes of the first row, the last one without a
\* scratch buffer.
C19_Witness ==
  /\ full_refresh_pending
  /\ FlushCalled
  /\ ~last_call.alloc_ok
  /\ rows_flushed = {0}
  /\ partial_update_count >= MAX_PARTIAL_UPDATES + 2

\* C20: the row bitmap is all-zero when a step arms a full refresh and when a
\* step has executed one; from one step to the next while the engine stays
\* armed, every row bit that was set is still set.
C20_BitmapOnlyFillsWhileArmed ==
  [][ /\ Arms => BitmapClearIn(full_refresh_row_bitmap')
      /\ HasIn(events', "full_refresh") =>
           BitmapClearIn(full_refresh_row_bitmap')
      /\ (full_refresh_pending /\ full_refresh_pending') =>
           \A r \in AllRows :
             RowMarked(r) => RowMarkedIn(full_refresh_row_bitmap', r) ]_vars

\* Armed, with the last row marked by a converted flush and the first row
\* still unmarked.
C20_Witness ==
  /\ full_refresh_pending
  /\ FlushCalled
  /\ last_call.alloc_ok
  /\ rows_flushed = {SCREEN_HEIGHT - 1}
  /\ RowMarked(SCREEN_HEIGHT - 1)
  /\ ~RowMarked(0)

\* C21: a full refresh leaves the shadow framebuffer as it found it: after a
\* flush that executed one, every pixel outside the flushed rectangle has its
\* previous value and every pixel inside has the value the flush converted
\* (its previous value if the flush had no scratch buffer); the counter, the
\* pending flag and the row bitmap are reset.
C21_RefreshKeepsShadow ==
  [][ (last_call'.px_map # <<>> /\ HasIn(events', "full_refresh")) =>
        /\ DOMAIN full_frame_buffer' = DOMAIN full_frame_buffer
        /\ \A p \in Pixels :
              ShadowIn(full_frame_buffer', p) =
                IF InArea(p, last_call'.area) /\ last_call'.alloc_ok
                  THEN GivenColour(last_call'.px_map, last_call'.area, p)
                  ELSE Shadow(p)
        /\ partial_update_count' = 0
        /\ ~full_refresh_pending'
        /\ BitmapClearIn(full_refresh_row_bitmap') ]_vars

\* A full refresh executed by a converting flush of the last row, with black
\* pixels in the first row, which the flush did not touch.
C21_Witness ==
  /\ Recorded
  /\ Has("full_refresh")
  /\ last_call.alloc_ok
  /\ last_call.area.y1 = SCREEN_HEIGHT - 1
  /\ \A x \in 0 .. SCREEN_WIDTH - 1 : Shadow(<<x, 0>>) = GxEPD_BLACK

\* C22: a full refresh is executed by a flush call only, and runs from its
\* first panel call to the end of its page inside that call, before the one
\* acknowledgement of the flush; the call is the only flush in progress: it
\* selected one partial window, and nothing follows the refresh but the
\* acknowledgement.
C22_RefreshCompletesBeforeAck ==
  Has("full_refresh") =>
    /\ FlushCalled
    /\ EvCount("setPartialWindow") = 1
    /\ EvCount("flush_ready") = 1
    /\ SubSeq(events, FirstIn(events, "full_refresh"), Len(events)) =
         <<"full_refresh", "hibernate", "init", "setFullWindow", "firstPage",
           "nextPage", "flush_ready">>

\* The calls of a converting flush that executed the full refresh.
C22_Witness ==
  events = <<"setPartialWindow", "malloc", "firstPage", "nextPage", "free",
             "full_refresh", "hibernate", "init", "setFullWindow", "firstPage",
             "nextPage", "flush_ready">>

\* C23: a converting flush stores its rectangle in the shadow framebuffer
\* before the coverage step: the full refresh it triggers writes to the panel,
\* for every pixel of the rectangle, the colour this flush was given, and the
\* buffer the pixels were converted through is freed before the refresh
\* starts and before the flush is acknowledged.
C23_RefreshReplaysOwnPixels ==
  (Recorded /\ last_call.alloc_ok /\ Has("full_refresh")) =>
    LET area == last_call.area
        drawn == (area.x2 - area.x1 + 1) * (area.y2 - area.y1 + 1)
    IN /\ \A p \in Pixels :
            InArea(p, area) =>
              LET given == GivenColour(last_call.px_map, area, p)
              IN /\ Shadow(p) = given
                 /\ Len(panel_writes) >= drawn + p[2] * SCREEN_WIDTH + p[1] + 1
                 /\ panel_writes[drawn + p[2] * SCREEN_WIDTH + p[1] + 1] =
                      <<p[1], p[2], given>>
       /\ FirstIn(events, "free") < FirstIn(events, "full_refresh")
       /\ FirstIn(events, "free") < FirstIn(events, "flush_ready")

\* A converting flush painted the first row black and triggered the refresh,
\* which replayed that row black above a white pixel in the last row.
C23_Witness ==
  /\ Recorded
  /\ last_call.alloc_ok
  /\ Has("full_refresh")
  /\ last_call.area.y2 = 0
  /\ last_call.area.x2 = SCREEN_WIDTH - 1
  /\ \A x \in 0 .. SCREEN_WIDTH - 1 : Shadow(<<x, 0>>) = GxEPD_BLACK
  /\ Shadow(<<0, SCREEN_HEIGHT - 1>>) = GxEPD_WHITE

\* C24: when the width w of a converted rectangle is not a multiple of 8, the
\* bits of the last destination byte of every row at positions w and beyond
\* are 0, although the source bits at those positions read as black: the
\* conversion does not read the source past w.  The bits below w carry the
\* pixels.
C24_TrailingBitsUnset ==
  (Recorded /\ last_call.alloc_ok) =>
    LET area == last_call.area
        w == area.x2 - area.x1 + 1
        h == area.y2 - area.y1 + 1
        epd_stride == CeilDiv8(w)
        pad == 2 ^ (8 - (w % 8))
    IN (w % 8 # 0) =>
         \A y \in 0 .. h - 1 :
           LET last == y * epd_stride + epd_stride - 1
           IN /\ last \in DOMAIN converted
              /\ converted[last] % pad = 0
              /\ \A x \in w .. 8 * epd_stride - 1 :
                    lvgl_pixel(last_call.px_map, epd_stride, x, y) = 0

\* A rectangle as wide as the display, narrower than a byte, was converted
\* with every pixel of its first row black.
C24_Witness ==
  /\ Recorded
  /\ last_call.alloc_ok
  /\ last_call.area.x1 = 0
  /\ last_call.area.x2 = SCREEN_WIDTH - 1
  /\ SCREEN_WIDTH % 8 # 0
  /\ converted[0] = ((2 ^ SCREEN_WIDTH) - 1) * (2 ^ (8 - SCREEN_WIDTH))

\* The calls the flush callback and the full refresh make on the panel and
\* the toolkit.
FlushEvents ==
  {"setPartialWindow", "malloc", "malloc_failed", "firstPage", "nextPage",
   "free", "full_refresh", "hibernate", "init", "init_unanswered",
   "setFullWindow", "flush_ready"}

\* C25: a refresh cycle of the MQTT application's loop runs the threshold
\* check, then the toolkit redraw, then the panel power-off, and clears
\* display_needs_refresh last; every call of a flush, and of a full refresh
\* inside it, lies between the start of the redraw and the power-off, each
\* flush started has been acknowledged by then, and the flag is false after
\* the iteration.
C25_PowerOffAfterRedraw ==
  (last_call.op = "loop" /\ Has("eink_force_full_refresh")) =>
    LET check == FirstIn(events, "eink_force_full_refresh")
        redraw == FirstIn(events, "lv_refr_now")
        off == FirstIn(events, "eink_poweroff")
        clear == FirstIn(events, "display_needs_refresh = false")
    IN /\ EvCount("eink_force_full_refresh") = 1
       /\ EvCount("lv_refr_now") = 1
       /\ EvCount("eink_poweroff") = 1
       /\ EvCount("display_needs_refresh = false") = 1
       /\ check < redraw /\ redraw < off /\ off < clear
       /\ clear = Len(events)
       /\ \A i \in 1 .. Len(events) :
            events[i] \in FlushEvents => redraw < i /\ i < off
       /\ EvCount("flush_ready") = EvCount("setPartialWindow")
       /\ (Has("full_refresh") =>
             SubSeq(events, off - 2, off - 1) = <<"nextPage", "flush_ready">>)
       /\ ~display_needs_refresh

\* A loop iteration whose redraw ran the full refresh, and then powered the
\* panel off.
C25_Witness ==
  /\ last_call.op = "loop"
  /\ Has("full_refresh")
  /\ Has("eink_poweroff")
  /\ FirstIn(events, "full_refresh") < FirstIn(events, "eink_poweroff")

\* a is called before b, when both are called
Before(a, b) ==
  (Has(a) /\ Has(b)) =>
    \A i \in 1 .. Len(events) : \A j \in 1 .. Len(events) :
      (events[i] = a /\ events[j] = b) => i < j

\* C26: load_screen deactivates the current screen, destroys it, initialises
\* the new screen, activates it and loads it into the toolkit, in this order,
\* and leaves current_screen_id at the requested id.
C26_LifecycleOrder ==
  last_call.op = "load_screen" =>
    /\ Before("on_deactivate", "screen_destroy")
    /\ Before("screen_destroy", "screen_init")
    /\ Before("screen_init", "on_activate")
    /\ Before("on_activate", "lv_screen_load")
    /\ Has("screen_init")
    /\ current_screen_id = app_call.screen_id

\* C27: a loop iteration that starts with the connection lost, on a device
\* that has WiFi and came up with its MQTT session, while the broker can be
\* reached, leaves the client connected and subscribed to both topics: the
\* loop attempts the reconnect on every such iteration, whatever the
\* outcome of earlier attempts.
C27_LoopKeepsReconnecting ==
  (/\ last_call.op = "loop"
   /\ app_call.lost
   /\ app_call.reachable
   /\ wifi_connected
   /\ current_screen_id = SCREEN_GRID_POWER) =>
    /\ mqttClient.connected
    /\ mqttClient.subscriptions = Topics

\* The messages of a delivery that change a value: a solar power message, or
\* a grid power message whose JSON parses.
Parsed(delivered) ==
  { i \in 1 .. Len(delivered) :
      \/ delivered[i].topic = MQTT_TOPIC_SOLAR_POWER
      \/ /\ delivered[i].topic = MQTT_TOPIC_GRID_POWER
         /\ ~DeserializationError(delivered[i].payload) }

\* C28: while the Grid Power screen is active, every message of a loop
\* iteration that parses requests the refresh; the iteration then runs one
\* refresh cycle, however many messages requested it, and leaves
\* display_needs_refresh false; an iteration whose messages all fail to parse
\* changes no value and runs no refresh cycle.
C28_MessagesRefreshOnce ==
  [][ (last_call'.op = "loop" /\ current_screen_id = SCREEN_GRID_POWER) =>
        LET parsed == Parsed(app_call'.delivered)
        IN /\ EvCountIn(events', "trigger_display_refresh") = Cardinality(parsed)
           /\ EvCountIn(events', "lv_refr_now") = IF parsed = {} THEN 0 ELSE 1
           /\ EvCountIn(events', "eink_poweroff") = IF parsed = {} THEN 0 ELSE 1
           /\ ~display_needs_refresh'
           /\ (parsed = {} => /\ current_grid' = current_grid
                              /\ current_solar' = current_solar) ]_vars

\* C29: when load_screen(id) has returned, the toolkit's active screen is a
\* live object, the one registered for screen id and held by that screen's
\* global handle.
C29_ActiveScreenLive ==
  last_call.op = "load_screen" =>
    /\ lv.act_scr \in lv.objs
    /\ lv.act_scr = screens[app_call.screen_id]
    /\ lv.act_scr = IF app_call.screen_id = SCREEN_SPLASH
                      THEN ui.ui_Screen_Splash ELSE ui.ui_Screen_GridPower

\* C30: update_power_display never runs with one of the five label handles
\* null.
C30_PowerLabelsNonNull ==
  ~Has("null_label_write")

\* C31: in every reachable state in which no full refresh is armed
\* (full_refresh_pending = false) every byte of the row-coverage bitmap is 0:
\* no row is marked, whatever flushes have been received while idle.
C31_IdleBitmapClear ==
  ~full_refresh_pending =>
    /\ BitmapClearIn(full_refresh_row_bitmap)
    /\ \A r \in AllRows : ~RowMarked(r)

\* A flush has just been received and handled while idle: the counter has
\* counted it, the coverage step neither marked its rows nor refreshed.
C31_Witness ==
  /\ ~full_refresh_pending
  /\ last_call.op = "my_disp_flush"
  /\ partial_update_count >= MAX_PARTIAL_UPDATES
  /\ Has("flush_ready")
  /\ ~Has("full_refresh")

\* C32: a flush whose rectangle lies within the panel writes the shadow
\* framebuffer only at byte indices below ceil(W*H/8) and the scratch buffer
\* only at indices below ceil(w/8)*h; distinct panel coordinates have
\* distinct framebuffer bits: storing a pixel gives that pixel the stored
\* colour and leaves the colour read for every other pixel as it was.
C32_IndicesInBounds ==
  /\ ~Has("framebuffer_overrun")
  /\ ~Has("scratch_overrun")
  /\ \A p \in Pixels : \A is_black \in BOOLEAN :
       LET fb == set_full_frame_pixel(Engine, p[1], p[2],
                                      is_black).full_frame_buffer
       IN /\ DOMAIN fb = 0 .. FrameBytes - 1
          /\ get_full_frame_pixel(fb, p[1], p[2]) = is_black
          /\ \A q \in Pixels \ {p} :
               get_full_frame_pixel(fb, q[1], q[2])
                 = get_full_frame_pixel(full_frame_buffer, q[1], q[2])

\* A flush of the whole panel, with pixels of both colours, has been
\* converted: every byte of the scratch buffer and every pixel of the shadow
\* framebuffer, the last one included, has been written.
C32_Witness ==
  /\ last_call.op = "my_disp_flush"
  /\ Recorded
  /\ last_call.alloc_ok
  /\ last_call.area = [x1 |-> 0, y1 |-> 0,
                       x2 |-> SCREEN_WIDTH - 1, y2 |-> SCREEN_HEIGHT - 1]
  /\ DOMAIN converted = 0 .. CeilDiv8(SCREEN_WIDTH) * SCREEN_HEIGHT - 1
  /\ \E p \in Pixels : \E q \in Pixels :
       /\ GivenColour(last_call.px_map, last_call.area, p) = GxEPD_BLACK
       /\ GivenColour(last_call.px_map, last_call.area, q) = GxEPD_WHITE
       /\ get_full_frame_pixel(full_frame_buffer, p[1], p[2])
       /\ ~get_full_frame_pixel(full_frame_buffer, q[1], q[2])
  /\ Has("flush_ready")

====
